---- MODULE Spec2Model ----
(***************************************************************************)
(* Verification model of the Rpeak ECG processing core:                    *)
(*   - ECGIntervalCalculator (grouping of fiducial points, intervals)      *)
(*   - HRVCalculator (rolling RR history)                                  *)
(*   - PanTompkinsDetector (adaptive dual-threshold QRS detection)         *)
(*   - detectRPeaksECG / PQRSTDetector (direct scan with fallback)         *)
(*   - EcgFullPanel (rolling window, per-packet handler, polling tick)     *)
(*   - HighpassFilter, NotchFilter, LowpassFilter, ECGFilterChain          *)
(*                                                                         *)
(* Numbers.  JavaScript numbers are modelled by integers in fixed point:   *)
(*   - sample amplitudes are held in thousandths (1.0 = 1000);             *)
(*   - durations of the interval calculator are held in ninths of a        *)
(*     millisecond, which is exact at 360 Hz (1 sample = 25/9 ms);         *)
(*   - RR intervals of the HRV calculator are held in ninths of a          *)
(*     millisecond as well;                                                *)
(*   - filter taps and filter outputs are held in millionths, filter       *)
(*     coefficients in units of 1e-8 (their eight decimals), and every     *)
(*     product is rounded to the nearest millionth.                        *)
(* An absent value (null) is the empty sequence, a present value v is <<v>>.*)
(***************************************************************************)
EXTENDS Integers, Sequences, FiniteSets, TLC

VARIABLES
    \* ECGIntervalCalculator
    lastIntervals,   \* this.lastIntervals : <<>> (null) or <<Intervals>>
    gender,          \* this.gender
    icCall,          \* record of the last calculator operation and its result
    lastGood,        \* history: value of the last successful computation
    validCall,       \* record of the last validateIntervals call
    \* HRVCalculator
    rrIntervals,     \* this.rrIntervals
    hrvCall,         \* record of the last HRV operation
    accepted,        \* history: every interval accepted since construction/reset
    \* detectRPeaksECG
    rpCall,          \* record of the last call: arguments and outcome
    \* PQRSTDetector
    wavesCall,       \* record of the last detectWaves call and its result
    \* PanTompkinsDetector
    signalThreshold, \* this.signalThreshold, in IntegratedUnit-ths
    noiseThreshold,  \* this.noiseThreshold, in IntegratedUnit-ths
    peakAmp,         \* this.peakAmp
    peakLoc,         \* this.peakLoc
    noiseAmp,        \* this.noiseAmp
    noiseLoc,        \* this.noiseLoc
    qrsCall,         \* record of the last detector operation and its result
    qrsCalls,        \* history: detectQRS calls since construction
    \* EcgFullPanel (its hrvCalculator and intervalCalculator are the two
    \* calculators above)
    dataCh0,                   \* dataCh0.current, in thousandths
    absoluteSampleIndexBuffer, \* absoluteSampleIndexBuffer.current
    sampleIndex,               \* sampleIndex.current
    totalSamples,              \* totalSamples.current
    connected,                 \* connected
    pqrstPoints,               \* pqrstPoints.current
    lastAcceptedSample,        \* lastAcceptedSampleRef.current
    rPeakTimestamps,           \* rPeakTimestamps, in ninths of a millisecond
    contributions,   \* history: the beat pairs whose RR entered the RR buffer
    ticks,           \* history: runs of the peak interval callback
    filters,         \* taps of highpass.current, notch.current, ecg.current
    isRecording,     \* isRecordingRef.current
    recorded,        \* samples recorded since startRecording, in thousandths
    stored,          \* history: the value stored for each sample, in order
    \* ECGFilterChain
    chain,           \* taps of this.highpass, this.lowpass, this.notch
    chainCalls,      \* history: process calls since construction
    stages,          \* history: the stages the latest sample went through
    \* SessionAnalyzer
    analyzers,       \* the fields of two analyzers and their latest result
    \* tfLoader
    loader,          \* tfModule, modelCache, the two promise variables, and
                     \* every promise created, with history counters
    loaderCalls,     \* the calls of loadTensorFlow / loadECGModel made so far
    \* BPMCalculator
    bpmCall,         \* the latest call of calculateBPMFromPeaks and its result
    \* One filter fed a constant
    steady,          \* the filter, the constant, its taps and its latest output
    \* groupIntoComplexes
    groupCall        \* the latest point list grouped and the complexes made

vars == <<lastIntervals, gender, icCall, lastGood, validCall, rrIntervals,
          hrvCall, accepted,
          rpCall, signalThreshold, noiseThreshold, peakAmp, peakLoc, noiseAmp,
          noiseLoc, qrsCall, qrsCalls, dataCh0, absoluteSampleIndexBuffer,
          sampleIndex, totalSamples, connected, pqrstPoints, lastAcceptedSample,
          rPeakTimestamps, contributions, ticks, filters, isRecording,
          recorded, stored, chain, chainCalls, stages, wavesCall, analyzers, loader,
          loaderCalls, bpmCall, steady, groupCall>>

icVars  == <<lastIntervals, gender, icCall, lastGood, validCall>>
hrvVars == <<rrIntervals, hrvCall, accepted>>
rpVars  == <<rpCall>>
qrsVars == <<signalThreshold, noiseThreshold, peakAmp, peakLoc, noiseAmp,
             noiseLoc, qrsCall, qrsCalls>>
panelVars == <<dataCh0, absoluteSampleIndexBuffer, sampleIndex, totalSamples,
               connected, pqrstPoints, lastAcceptedSample, rPeakTimestamps,
               contributions, ticks, filters, isRecording, recorded, stored>>
chainVars == <<chain, chainCalls, wavesCall>>
auxVars == <<analyzers, loader, loaderCalls, bpmCall, steady, groupCall>>

----------------------------------------------------------------------------
(* Generic helpers *)

Null == << >>
Some(x) == <<x>>
IsNull(o) == o = << >>

Abs(x) == IF x < 0 THEN -x ELSE x
Min(a, b) == IF a < b THEN a ELSE b
Max(a, b) == IF a > b THEN a ELSE b

\* Math.floor(a / b) for b > 0 (TLA+ \div already floors)
FloorDiv(a, b) == a \div b

\* Math.round(a / b) for b > 0: floor(a/b + 1/2)
RoundDiv(a, b) == (2 * a + b) \div (2 * b)

RECURSIVE ISqrtBetween(_, _, _)
ISqrtBetween(n, lo, hi) ==
    IF lo >= hi THEN lo
    ELSE LET mid == (lo + hi + 1) \div 2
         IN  IF mid * mid <= n THEN ISqrtBetween(n, mid, hi)
                               ELSE ISqrtBetween(n, lo, mid - 1)

\* floor(sqrt(n)) for 0 <= n < 2^30
ISqrt(n) == ISqrtBetween(n, 0, 32767)

LastN(seq, n) == SubSeq(seq, Len(seq) - n + 1, Len(seq))

\* seq[lo] + ... + seq[hi]
RECURSIVE SumRange(_, _, _)
SumRange(seq, lo, hi) ==
    IF lo > hi THEN 0
    ELSE IF lo = hi THEN seq[lo]
    ELSE SumRange(seq, lo, (lo + hi) \div 2)
         + SumRange(seq, (lo + hi) \div 2 + 1, hi)

----------------------------------------------------------------------------
(* ECGIntervalCalculator *)

sampleRate == 360

PointTypes == {"P", "Q", "R", "S", "T"}

\* (samples / sampleRate) * 1000, in ninths of a millisecond
SamplesToMs9(samples) == (samples * 9000) \div sampleRate

\* [...points].sort((a, b) => a.absolutePosition - b.absolutePosition):
\* Array.prototype.sort is stable, so equal positions keep their input order.
\* (Intermediate results are bound with "x \in {e}" so that each is computed
\* once.)
RECURSIVE InsertByPosition(_, _)
InsertByPosition(sorted, p) ==
    IF sorted = << >> THEN <<p>>
    ELSE IF sorted[Len(sorted)].absolutePosition <= p.absolutePosition
         THEN Append(sorted, p)
         ELSE CHOOSE r \in {Append(front, sorted[Len(sorted)]) :
                  front \in {InsertByPosition(SubSeq(sorted, 1, Len(sorted) - 1),
                                              p)}} : TRUE

RECURSIVE SortFrom(_, _, _)
SortFrom(sorted, points, i) ==
    IF i > Len(points) THEN sorted
    ELSE CHOOSE r \in {SortFrom(next, points, i + 1) :
             next \in {InsertByPosition(sorted, points[i])}} : TRUE

SortByPosition(points) == SortFrom(<< >>, points, 1)

minRRDistance == FloorDiv(sampleRate * 6, 10)

\* One iteration of the loop "for (const point of sortedPoints)"
GroupStep(st, point) ==
    IF point.type = "R"
    THEN IF st.lastRPosition # -1
            /\ Abs(point.absolutePosition - st.lastRPosition) < minRRDistance
         THEN st                                   \* continue: R dropped
         ELSE IF st.lastRPosition # -1
              THEN [complexes      |-> Append(st.complexes, st.currentComplex),
                    currentComplex |-> <<point>>,
                    lastRPosition  |-> point.absolutePosition]
              ELSE [complexes      |-> st.complexes,
                    currentComplex |-> Append(st.currentComplex, point),
                    lastRPosition  |-> point.absolutePosition]
    ELSE [st EXCEPT !.currentComplex = Append(st.currentComplex, point)]

RECURSIVE GroupLoop(_, _, _)
GroupLoop(st, sorted, i) ==
    IF i > Len(sorted) THEN st
    ELSE CHOOSE r \in {GroupLoop(next, sorted, i + 1) :
             next \in {GroupStep(st, sorted[i])}} : TRUE

GroupSorted(sorted) ==
    CHOOSE r \in {IF Len(st.currentComplex) > 0
                  THEN Append(st.complexes, st.currentComplex)
                  ELSE st.complexes :
             st \in {GroupLoop([complexes |-> << >>, currentComplex |-> << >>,
                                lastRPosition |-> -1], sorted, 1)}} : TRUE

groupIntoComplexes(points) ==
    IF Len(points) = 0 THEN << >>
    ELSE CHOOSE r \in {GroupSorted(sorted) :
             sorted \in {SortByPosition(points)}} : TRUE

HasType(complex, t) == \E i \in 1..Len(complex) : complex[i].type = t

\* Variant that forgets to require the P point
isCompleteComplex_NoP(complex) ==
    /\ HasType(complex, "Q")
    /\ HasType(complex, "R")
    /\ HasType(complex, "S")
    /\ HasType(complex, "T")

isCompleteComplex(complex) ==
    /\ HasType(complex, "P")
    /\ HasType(complex, "Q")
    /\ HasType(complex, "R")
    /\ HasType(complex, "S")
    /\ HasType(complex, "T")

\* complex.find(p => p.type === type) || null
findPointByType(complex, t) ==
    LET hits == SelectSeq(complex, LAMBDA p : p.type = t)
    IN  IF hits = << >> THEN Null ELSE Some(hits[1])

getRRStatus(rr) ==
    IF rr = 0 THEN "unknown"
    ELSE IF rr < 600 * 9 THEN "short"
    ELSE IF rr > 1000 * 9 THEN "long"
    ELSE "normal"

getPRStatus(pr) ==
    IF pr = 0 THEN "unknown"
    ELSE IF pr < 120 * 9 THEN "short"
    ELSE IF pr > 200 * 9 THEN "long"
    ELSE "normal"

getQRSStatus(qrs) ==
    IF qrs = 0 THEN "unknown"
    ELSE IF qrs > 120 * 9 THEN "wide"
    ELSE "normal"

getQTStatus(qt, g) ==
    IF qt = 0 THEN "unknown"
    ELSE IF qt > (IF g = "male" THEN 440 ELSE 460) * 9 THEN "prolonged"
    ELSE "normal"

getQTcStatus(qtc, g) ==
    IF qtc = 0 THEN "unknown"
    ELSE IF qtc > (IF g = "male" THEN 450 ELSE 470) * 9 THEN "prolonged"
    ELSE "normal"

\* Variant with the bradycardia threshold at 40
getBPMStatus_Forty(bpm) ==
    IF bpm = 0 THEN "unknown"
    ELSE IF bpm < 40 * 1000 THEN "bradycardia"
    ELSE IF bpm > 100 * 1000 THEN "tachycardia"
    ELSE "normal"

\* bpm is held in thousandths of a beat per minute
getBPMStatus(bpm) ==
    IF bpm = 0 THEN "unknown"
    ELSE IF bpm < 60 * 1000 THEN "bradycardia"
    ELSE IF bpm > 100 * 1000 THEN "tachycardia"
    ELSE "normal"

\* 60000 / rr, rr in ninths of a ms, result in thousandths of a bpm
BpmOfRR(rr) == (540000 * 1000) \div rr

\* 60000 / bpm, bpm in thousandths, result in ninths of a ms
RROfBpm(bpm) == (540000 * 1000) \div bpm

\* Variant that takes the root of the milliseconds
Bazett_Millis(qt, rr) == (qt * 1000) \div (ISqrt(rr \div 9) * 1000)

\* qt / Math.sqrt(rr / 1000), all in ninths of a ms
Bazett(qt, rr) == (qt * 1000) \div ISqrt((rr * 1000) \div 9)

\* calculateIntervals from "Use the most recent complex" on: the list has
\* at least one complex and the most recent one is complete.
IntervalsOfComplexes(complexes, last, g) ==
    LET latestComplex == complexes[Len(complexes)]
        currentR  == findPointByType(latestComplex, "R")
        previousR == IF Len(complexes) >= 2
                     THEN findPointByType(complexes[Len(complexes) - 1], "R")
                     ELSE Null
        rr0 == IF Len(complexes) >= 2 /\ ~IsNull(currentR) /\ ~IsNull(previousR)
               THEN SamplesToMs9(Abs(currentR[1].absolutePosition
                                     - previousR[1].absolutePosition))
               ELSE 0
        \* if (rrInterval === 0 && this.lastIntervals?.rr)
        rr1 == IF rr0 = 0 /\ ~IsNull(last) /\ last[1].rr # 0
               THEN last[1].rr ELSE rr0
        bpm == IF rr1 > 0 THEN BpmOfRR(rr1) ELSE 0
        pPoint == findPointByType(latestComplex, "P")
        qPoint == findPointByType(latestComplex, "Q")
        sPoint == findPointByType(latestComplex, "S")
        tPoint == findPointByType(latestComplex, "T")
        prInterval == IF ~IsNull(pPoint) /\ ~IsNull(qPoint)
                      THEN SamplesToMs9(qPoint[1].index - pPoint[1].index) ELSE 0
        qrsDuration == IF ~IsNull(qPoint) /\ ~IsNull(sPoint)
                       THEN SamplesToMs9(sPoint[1].index - qPoint[1].index) ELSE 0
        qtInterval == IF ~IsNull(qPoint) /\ ~IsNull(tPoint)
                      THEN SamplesToMs9(tPoint[1].index - qPoint[1].index) ELSE 0
        \* if (rrInterval < 100 && bpm > 0) rrInterval = 60000 / bpm
        rr2 == IF rr1 < 100 * 9 /\ bpm > 0 THEN RROfBpm(bpm) ELSE rr1
        qtcInterval == IF qtInterval > 0 /\ rr2 >= 100 * 9
                       THEN Bazett(qtInterval, rr2) ELSE 0
    IN [rr  |-> rr2, pr |-> prInterval, qrs |-> qrsDuration,
        qt  |-> qtInterval, qtc |-> qtcInterval, bpm |-> bpm,
        status |-> [rr  |-> getRRStatus(rr2),
                    pr  |-> getPRStatus(prInterval),
                    qrs |-> getQRSStatus(qrsDuration),
                    qt  |-> getQTStatus(qtInterval, g),
                    qtc |-> getQTcStatus(qtcInterval, g),
                    bpm |-> getBPMStatus(bpm)]]

\* calculateIntervals once the points are grouped
IntervalsOrHold(complexes, last, g) ==
    IF Len(complexes) < 1
    THEN [ret |-> last, last |-> last, fresh |-> FALSE]
    ELSE IF ~isCompleteComplex(complexes[Len(complexes)])
    THEN [ret |-> last, last |-> last, fresh |-> FALSE]
    ELSE CHOOSE r \in {[ret |-> Some(result), last |-> Some(result),
                        fresh |-> TRUE] :
             result \in {IntervalsOfComplexes(complexes, last, g)}} : TRUE

\* The body of calculateIntervals.  Returns the value returned, the new
\* this.lastIntervals and whether the value was computed by this call.
calculateIntervals(points, last, g) ==
    CHOOSE r \in {IntervalsOrHold(complexes, last, g) :
        complexes \in {groupIntoComplexes(points)}} : TRUE

----------------------------------------------------------------------------
(* Inputs of the interval calculator: lists of fiducial points as          *)
(* PQRSTDetector.detectWaves emits them, beat after beat, each beat in the  *)
(* order R, Q, P, S, T.                                                     *)

MaxBeats == 3

\* Candidate R indices inside the analysed buffer
RSlots == <<100, 400, 500, 700>>

AllTypes == {"P", "Q", "R", "S", "T"}

\* Which points of a beat are present in the list
BeatMasks == {AllTypes, {"Q", "R", "S", "T"}}

Offsets == {250}

\* Distance of each point of a beat from its R index
PointShift(t) ==
    CASE t = "P" -> -40
      [] t = "Q" -> -10
      [] t = "R" -> 0
      [] t = "S" -> 10
      [] t = "T" -> 80

EmitOrder == <<"R", "Q", "P", "S", "T">>

MkPoint(t, r, offset) ==
    [type |-> t, index |-> r + PointShift(t),
     absolutePosition |-> offset + r + PointShift(t)]

BeatPoints(beat, offset) ==
    LET present == SelectSeq(EmitOrder, LAMBDA t : t \in beat.mask)
    IN  [i \in 1..Len(present) |-> MkPoint(present[i], beat.r, offset)]

RECURSIVE PointsOf(_, _)
PointsOf(beats, offset) ==
    IF beats = << >> THEN << >>
    ELSE BeatPoints(beats[1], offset) \o PointsOf(Tail(beats), offset)

\* A choice assigns to every slot either no beat ({}) or a mask
SlotChoices == [1..Len(RSlots) -> BeatMasks \cup {{}}]

RECURSIVE BeatsFrom(_, _)
BeatsFrom(choice, i) ==
    IF i > Len(RSlots) THEN << >>
    ELSE (IF choice[i] = {} THEN << >>
          ELSE <<[r |-> RSlots[i], mask |-> choice[i]]>>)
         \o BeatsFrom(choice, i + 1)

BeatLists ==
    {bs \in {BeatsFrom(c, 1) : c \in SlotChoices} : Len(bs) <= MaxBeats}

\* groupIntoComplexes(points), as calculateIntervals calls it.  The call
\* keeps no state.
GroupIntoComplexes(points) ==
    groupCall' = [points |-> Some(points), ret |-> groupIntoComplexes(points)]

\* Offsets of the grouped lists: one puts the R of the first slot at
\* absolute position -1
GroupOffsets == {250, -101}

NoCall == [op |-> "new", beats |-> << >>, offset |-> 0, ret |-> Null,
           fresh |-> FALSE, before |-> Null]

CalculateIntervals(beats, offset) ==
    \E points \in {PointsOf(beats, offset)} :
    \E r \in {calculateIntervals(points, lastIntervals, gender)} :
        /\ lastIntervals' = r.last
        /\ icCall' = [op |-> "calculateIntervals", beats |-> beats,
                      offset |-> offset, ret |-> r.ret, fresh |-> r.fresh,
                      before |-> lastIntervals]
        /\ lastGood' = IF r.fresh THEN r.ret ELSE lastGood
        /\ UNCHANGED <<gender, validCall>>

ResetIntervals ==
    /\ lastIntervals' = Null
    /\ lastGood' = Null
    /\ icCall' = [NoCall EXCEPT !.op = "reset", !.before = lastIntervals]
    /\ UNCHANGED <<gender, validCall>>

SetGender(g) ==
    /\ gender' = g
    /\ icCall' = [NoCall EXCEPT !.op = "setGender", !.before = lastIntervals]
    /\ UNCHANGED <<lastIntervals, lastGood, validCall>>

\* validateIntervals(intervals): durations in ninths of a millisecond, bpm
\* in thousandths
validateIntervals(intervals) ==
    IF intervals.rr > 0 /\ (intervals.rr < 300 * 9 \/ intervals.rr > 3000 * 9)
    THEN FALSE
    ELSE IF intervals.pr > 0 /\ (intervals.pr < 80 * 9 \/ intervals.pr > 400 * 9)
    THEN FALSE
    ELSE IF intervals.qrs > 0
            /\ (intervals.qrs < 40 * 9 \/ intervals.qrs > 200 * 9)
    THEN FALSE
    ELSE IF intervals.qt > 0 /\ (intervals.qt < 200 * 9 \/ intervals.qt > 600 * 9)
    THEN FALSE
    ELSE IF intervals.qtc > 0
            /\ (intervals.qtc < 300 * 9 \/ intervals.qtc > 700 * 9)
    THEN FALSE
    ELSE IF intervals.bpm > 0
            /\ (intervals.bpm < 20 * 1000 \/ intervals.bpm > 300 * 1000)
    THEN FALSE
    ELSE TRUE

NoValidCall == [intervals |-> Null, ret |-> Null]

\* validateIntervals() as a call on the calculator; it reads no field and
\* writes none
ValidateIntervals(intervals) ==
    /\ validCall' = [intervals |-> Some(intervals),
                     ret |-> Some(validateIntervals(intervals))]
    /\ UNCHANGED <<lastIntervals, gender, icCall, lastGood>>

(* Inputs of the classification and of the validation.  A beat is followed *)
(* 60 samples later by a beat whose R is dropped as too close, so that the  *)
(* most recent complex holds P, Q, R, S and T and the intervals are         *)
(* computed.  The R-R distances are 216 samples (600 ms, 100 BPM), 300,     *)
(* 360 (1000 ms, 60 BPM), 361 and 480 (45 BPM).                             *)

WholeBeat(r) == [r |-> r, mask |-> AllTypes]

StatusBeats ==
    {<<WholeBeat(100)>>}
    \cup {<<WholeBeat(100), WholeBeat(100 + d), WholeBeat(160 + d)>> :
             d \in {216, 300, 360, 361, 480}}

\* An Intervals record with the given durations (ms) and rate (bpm)
Measured(rr, pr, qrs, qt, qtc, bpm) ==
    [rr |-> rr * 9, pr |-> pr * 9, qrs |-> qrs * 9, qt |-> qt * 9,
     qtc |-> qtc * 9, bpm |-> bpm * 1000,
     status |-> [rr  |-> getRRStatus(rr * 9),
                 pr  |-> getPRStatus(pr * 9),
                 qrs |-> getQRSStatus(qrs * 9),
                 qt  |-> getQTStatus(qt * 9, "male"),
                 qtc |-> getQTcStatus(qtc * 9, "male"),
                 bpm |-> getBPMStatus(bpm * 1000)]]

\* Records that differ from a plausible one in a single duration
EdgeIntervals ==
    {Measured(rr, 160, 90, 380, 420, 75) : rr \in {-500, 0, 299, 300, 800, 3000, 3001}}
    \cup {Measured(800, pr, 90, 380, 420, 75) : pr \in {-10, 0, 79, 80, 400, 401}}
    \cup {Measured(800, 160, qrs, 380, 420, 75) : qrs \in {-111, 0, 39, 40, 200, 201}}
    \cup {Measured(800, 160, 90, qt, 420, 75) : qt \in {-28, 0, 199, 200, 600, 601}}
    \cup {Measured(800, 160, 90, 380, qtc, 75) : qtc \in {-28, 0, 299, 300, 700, 701}}

\* The records handed to validateIntervals: the edge records and the
\* intervals last computed
ValidateInputs ==
    EdgeIntervals \cup (IF IsNull(lastIntervals) THEN {} ELSE {lastIntervals[1]})

----------------------------------------------------------------------------
(* HRVCalculator.  RR intervals are held in ninths of a millisecond.        *)

maxIntervals == 300

\* if (interval > 300 && interval < 2000)
RRInRange(interval) == interval > 300 * 9 /\ interval < 2000 * 9

\* Variant that evicts the newest entry (pop) instead of the oldest (shift)
addRRInterval_Pop(buf, interval) ==
    IF RRInRange(interval)
    THEN LET pushed == Append(buf, interval)
         IN  IF Len(pushed) > maxIntervals
             THEN SubSeq(pushed, 1, Len(pushed) - 1) ELSE pushed
    ELSE buf

\* The new this.rrIntervals after addRRInterval(interval)
addRRInterval(buf, interval) ==
    IF RRInRange(interval)
    THEN LET pushed == Append(buf, interval)
         IN  IF Len(pushed) > maxIntervals THEN Tail(pushed) ELSE pushed
    ELSE buf

\* The interval handed to addRRInterval for peaks[i-1], peaks[i] (1-based i)
PeakRR(peaks, i) == SamplesToMs9(peaks[i] - peaks[i - 1])

RECURSIVE ExtractLoop(_, _, _)
ExtractLoop(buf, peaks, i) ==
    IF i > Len(peaks) THEN buf
    ELSE CHOOSE r \in {ExtractLoop(next, peaks, i + 1) :
             next \in {addRRInterval(buf, PeakRR(peaks, i))}} : TRUE

\* The new this.rrIntervals after extractRRFromPeaks(peaks, sampleRate)
extractRRFromPeaks(buf, peaks) ==
    IF Len(peaks) < 2 THEN buf ELSE ExtractLoop(buf, peaks, 2)

\* history: the intervals of a peak list that addRRInterval accepts, in order
RECURSIVE AcceptedOf(_, _)
AcceptedOf(peaks, i) ==
    IF i > Len(peaks) THEN << >>
    ELSE (IF RRInRange(PeakRR(peaks, i)) THEN <<PeakRR(peaks, i)>> ELSE << >>)
         \o AcceptedOf(peaks, i + 1)

(* Inputs of the HRV calculator.  The first FreeChoices accepted intervals   *)
(* are chosen freely; after that the k-th accepted interval follows a fixed  *)
(* repeating pattern, so that every position of the history holds a value    *)
(* that tells it from its neighbours.  Rejected values are free throughout.  *)

MaxAccepted == 303

FreeChoices == 1

\* RR distances in samples that yield an accepted interval
ValidSamples(k) ==
    IF k < FreeChoices THEN {109, 252, 719} ELSE {216 + 36 * (k % 7)}

\* Intervals (ninths of a ms) on and around the limits of the accepted range
EdgeRR == {0, -9000, 300 * 9 - 1, 300 * 9, 2000 * 9, 2000 * 9 + 1}

IntervalInputs(k) ==
    EdgeRR \cup {SamplesToMs9(d) : d \in ValidSamples(k)}
           \cup (IF k < FreeChoices THEN {300 * 9 + 1, 2000 * 9 - 1} ELSE {})

PeakInputs(k) ==
    {<< >>, <<50>>, <<50, 150>>}
    \cup {<<50, 50 + d>> : d \in ValidSamples(k)}
    \cup {<<50, 50 + d, 50 + d + e>> :
            d \in ValidSamples(k), e \in ValidSamples(k + 1)}
    \cup {<<50, 150, 150 + d>> : d \in ValidSamples(k)}

NoHrvCall == [op |-> "new", interval |-> 0, peaks |-> << >>, before |-> << >>,
              ret |-> << >>]

AddRRInterval(interval) ==
    /\ Len(accepted) < MaxAccepted
    /\ rrIntervals' = addRRInterval(rrIntervals, interval)
    /\ accepted' = IF RRInRange(interval) THEN Append(accepted, interval)
                                          ELSE accepted
    /\ hrvCall' = [NoHrvCall EXCEPT !.op = "addRRInterval",
                                    !.interval = interval,
                                    !.before = rrIntervals]

ExtractRRFromPeaks(peaks) ==
    /\ Len(accepted) + Len(peaks) <= MaxAccepted
    /\ rrIntervals' = extractRRFromPeaks(rrIntervals, peaks)
    /\ accepted' = accepted \o AcceptedOf(peaks, 2)
    /\ hrvCall' = [NoHrvCall EXCEPT !.op = "extractRRFromPeaks",
                                    !.peaks = peaks,
                                    !.before = rrIntervals]

ResetHRV ==
    /\ rrIntervals' = << >>
    /\ accepted' = << >>
    /\ hrvCall' = [NoHrvCall EXCEPT !.op = "reset", !.before = rrIntervals]

(* HRV metrics.  Times are in thousandths of a millisecond, percentages,   *)
(* ratios and confidences in thousandths; a square root is taken to 1/18 ms. *)

\* floor of the mean of the non-negative numbers f[1..n]
MeanOf(f, n) ==
    SumRange([i \in 1..n |-> f[i] \div n], 1, n)
    + SumRange([i \in 1..n |-> f[i] % n], 1, n) \div n

\* Math.sqrt of a mean of squares of ninths, in thousandths of a millisecond
RootMs(meanSquare9) == (ISqrt(4 * meanSquare9) * 1000) \div 18

calculateRMSSD(buf) ==
    IF Len(buf) < 2 THEN 0
    ELSE RootMs(MeanOf([i \in 1..(Len(buf) - 1) |->
                           (buf[i + 1] - buf[i]) * (buf[i + 1] - buf[i])],
                       Len(buf) - 1))

\* The mean is taken to the ninth of a millisecond below
calculateSDNN(buf) ==
    IF Len(buf) < 2 THEN 0
    ELSE CHOOSE r \in
           {RootMs(MeanOf([i \in 1..Len(buf) |-> (buf[i] - mean) * (buf[i] - mean)],
                          Len(buf))) :
              mean \in {MeanOf(buf, Len(buf))}} : TRUE

calculatePNN50(buf) ==
    IF Len(buf) < 2 THEN 0
    ELSE (Cardinality({i \in 1..(Len(buf) - 1) :
                          Abs(buf[i + 1] - buf[i]) > 50 * 9}) * 100000)
         \div (Len(buf) - 1)

\* binWidth = 7.8125 ms is 1125/16 ninths: Math.floor((rr - minRR) / binWidth)
BinIndex(rr, minRR) == ((rr - minRR) * 16) \div 1125

\* The length over the count of the tallest bin, the bins being those with
\* an index below numBins = Math.ceil((maxRR - minRR) / binWidth)
calculateTriangularIndex(buf) ==
    IF Len(buf) < 20 THEN 0
    ELSE LET rrs == {buf[i] : i \in 1..Len(buf)}
             minRR == CHOOSE v \in rrs : \A o \in rrs : v <= o
             maxRR == CHOOSE v \in rrs : \A o \in rrs : v >= o
             numBins == ((maxRR - minRR) * 16 + 1124) \div 1125
             histogram == [b \in 0..(numBins - 1) |->
                              Cardinality({i \in 1..Len(buf) :
                                             BinIndex(buf[i], minRR) = b})]
         IN  IF numBins = 0 THEN 0
             ELSE (Len(buf) * 1000)
                  \div (CHOOSE c \in {histogram[b] : b \in 0..(numBins - 1)} :
                            \A b \in 0..(numBins - 1) : histogram[b] <= c)

\* The ratio lf / hf: the mean absolute difference over the positions
\* i % 4 = 0 and over the positions i % 2 = 0 (0-based)
calculateLFHFRatio(buf) ==
    IF Len(buf) < 30 THEN 0
    ELSE LET MeanAbs(step) ==
                 LET idx == {i \in 1..(Len(buf) - 1) : (i - 1) % step = 0}
                     all == [i \in 1..(Len(buf) - 1) |->
                                IF i \in idx THEN Abs(buf[i + 1] - buf[i]) ELSE 0]
                 IN  (SumRange(all, 1, Len(buf) - 1) * 1000)
                     \div (9 * Cardinality(idx))
         IN  CHOOSE r \in
               UNION {{IF hf > 0 THEN (lf * 1000) \div hf ELSE 0 :
                         lf \in {MeanAbs(4)}} : hf \in {MeanAbs(2)}} : TRUE

getAllMetrics(buf) ==
    [rmssd |-> calculateRMSSD(buf),
     sdnn |-> calculateSDNN(buf),
     pnn50 |-> calculatePNN50(buf),
     triangularIndex |-> calculateTriangularIndex(buf),
     lfhf |-> calculateLFHFRatio(buf),
     sampleCount |-> Len(buf)]

\* Variant without the cap
Cap_None(confidence) == confidence

\* "confidence = Math.min(0.95, confidence)"
Cap(confidence) == Min(950, confidence)

\* The rule cascade of getPhysiologicalState and getMentalState on metrics m
\* and mean RR meanRR (ninths of a millisecond)
StateOf(m, meanRR) ==
    LET RMSSD == m.rmssd
        SDNN == m.sdnn
        pNN50 == m.pnn50
        LF_HF == m.lfhf
        entropy == m.triangularIndex \div 20
        BPM == IF meanRR > 0 THEN BpmOfRR(meanRR) ELSE 0
        Least(S) == CHOOSE v \in S : \A o \in S : v <= o
    IN  IF RMSSD < 25000 /\ SDNN < 50000 /\ BPM > 90000
        THEN [state |-> "High Stress",
              confidence |-> Cap(700 + (90000 - RMSSD) \div 100)]
        ELSE IF RMSSD > 40000 /\ pNN50 > 30000 /\ LF_HF < 1500
        THEN [state |-> "Relaxed",
              confidence |-> Cap(700 + (RMSSD - 40000) \div 100)]
        ELSE IF pNN50 < 10000 /\ LF_HF > 2000
        THEN [state |-> "Focused",
              confidence |-> Cap(700 + (LF_HF - 2000) \div 3)]
        ELSE IF SDNN < 30000 /\ entropy < 600
        THEN [state |-> "Fatigue",
              confidence |-> Cap(700 + (600 - entropy) * 2)]
        ELSE [state |-> "Neutral",
              confidence |->
                Cap(600
                    + (Least({Abs(RMSSD - 25000) \div 25, Abs(SDNN - 50000) \div 50,
                              Abs(BPM - 90000) \div 90,
                              Abs(RMSSD - 40000) \div 40, Abs(pNN50 - 30000) \div 30,
                              (Abs(LF_HF - 1500) * 2) \div 3,
                              Abs(pNN50 - 10000) \div 10, Abs(LF_HF - 2000) \div 2,
                              Abs(SDNN - 30000) \div 30,
                              (Abs(entropy - 600) * 5) \div 3}) * 4) \div 10)]

\* Variant that asks for twenty intervals only
getPhysiologicalState_Twenty(buf) ==
    IF Len(buf) < 20 THEN [state |-> "Analyzing", confidence |-> 0]
    ELSE StateOf(getAllMetrics(buf), MeanOf(buf, Len(buf)))

\* getPhysiologicalState(); getMentalState() has the same body
getPhysiologicalState(buf) ==
    IF Len(buf) < 30 THEN [state |-> "Analyzing", confidence |-> 0]
    ELSE CHOOSE r \in
           {StateOf(m, MeanOf(buf, Len(buf))) : m \in {getAllMetrics(buf)}} : TRUE

getMentalState(buf) == getPhysiologicalState(buf)

\* getPhysiologicalState(), getMentalState() and calculateTriangularIndex()
\* as calls on the calculator
GetState(op) ==
    /\ hrvCall' = [NoHrvCall EXCEPT
                     !.op = op,
                     !.before = rrIntervals,
                     !.ret = IF op = "getMentalState"
                             THEN getMentalState(rrIntervals)
                             ELSE getPhysiologicalState(rrIntervals)]
    /\ UNCHANGED <<rrIntervals, accepted>>

CalculateTriangularIndex ==
    /\ hrvCall' = [NoHrvCall EXCEPT
                     !.op = "calculateTriangularIndex",
                     !.before = rrIntervals,
                     !.ret = calculateTriangularIndex(rrIntervals)]
    /\ UNCHANGED <<rrIntervals, accepted>>

(* Inputs of the state estimate: the first interval picks a rhythm, which   *)
(* the following intervals keep.                                            *)

\* Most intervals in the history when the state is estimated
MaxHistory == 32

Rhythms == {600 * 9, 620 * 9, 800 * 9, 810 * 9, 1000 * 9}

\* The interval that follows the history buf
RhythmInputs(buf) ==
    IF buf = << >> THEN Rhythms
    ELSE LET k == Len(buf)
         IN  {IF buf[1] = 600 * 9 THEN 600 * 9 + 45 * (k % 2)
              ELSE IF buf[1] = 620 * 9 THEN 620 * 9 + 108 * k
              ELSE IF buf[1] = 800 * 9 THEN 800 * 9
              ELSE IF buf[1] = 810 * 9 THEN 810 * 9 + 900 * (k % 2)
              ELSE 1000 * 9 + (IF k % 3 = 0 THEN 0 ELSE 1125)}

----------------------------------------------------------------------------
(* PQRSTDetector.  A buffer is a sequence of integers together with the     *)
(* integer "unit" that stands for the amplitude 1.0, so the sample data[i]  *)
(* of the code (0-based) is the rational D(data, i) / unit.  Dividing a     *)
(* buffer by m is then exact: the same integers with the unit multiplied.   *)
(* The detector's sample rate sr is an integer here; the non-finite rates   *)
(* are treated where detectRPeaksECG receives them.                         *)

\* data[i] for an index outside the array
Undefined == -1000000000

D(data, i) == IF i >= 0 /\ i < Len(data) THEN data[i + 1] ELSE Undefined

\* a < b and a > b of JavaScript: false when an operand is undefined
Lt(a, b) == a # Undefined /\ b # Undefined /\ a < b
Gt(a, b) == a # Undefined /\ b # Undefined /\ a > b

\* Index left by "idx = lo; val = data[lo]; for (i = lo; i <= hi; i++)
\* if (data[i] < val) { val = data[i]; idx = i }": the first minimum of
\* data[lo..hi], or lo when the range is empty or data[lo] is undefined.
FirstArgMin(data, lo, hi) ==
    IF hi < lo \/ D(data, lo) = Undefined THEN lo
    ELSE CHOOSE k \in lo..hi :
             \A j \in lo..hi : \/ D(data, k) < D(data, j)
                               \/ (D(data, k) = D(data, j) /\ k <= j)

\* The same with "data[i] > val": the first maximum
FirstArgMax(data, lo, hi) ==
    IF hi < lo \/ D(data, lo) = Undefined THEN lo
    ELSE CHOOSE k \in lo..hi :
             \A j \in lo..hi : \/ D(data, k) > D(data, j)
                               \/ (D(data, k) = D(data, j) /\ k <= j)

isValidQRS(data, unit, rIndex, sr) ==
    LET qrsWindow == FloorDiv(sr * 6, 100)
        hasQWave == \E i \in Max(0, rIndex - qrsWindow)..(rIndex - 1) :
                        Lt(D(data, i), 0)
        hasSWave == \E i \in (rIndex + 1)..(Min(Len(data), rIndex + qrsWindow) - 1) :
                        Lt(D(data, i), 0)
    IN  \/ hasQWave /\ hasSWave
        \/ D(data, rIndex) # Undefined /\ D(data, rIndex) * 2 > unit

WavePoint(data, t, idx, currentIndex) ==
    [type |-> t, index |-> idx, amplitude |-> D(data, idx),
     absolutePosition |-> currentIndex + idx]

\* The rrInterval used for the peak number peakIdx (1-based) of peaksToProcess
LocalRR(peaks, peakIdx, sr) ==
    LET raw == IF peakIdx > 1 THEN peaks[peakIdx] - peaks[peakIdx - 1]
               ELSE IF peakIdx < Len(peaks)
                    THEN peaks[peakIdx + 1] - peaks[peakIdx]
                    ELSE sr
    IN  IF raw * 10 < sr * 3 THEN FloorDiv(sr * 3, 10)
        ELSE IF raw * 2 > sr * 3 THEN FloorDiv(sr * 3, 2)
        ELSE raw

\* The five points pushed by one iteration of peaksToProcess.forEach for an
\* R-peak that passes the edge check, in push order R, Q, P, S, T.
BeatWaves(data, r, rrInterval, currentIndex) ==
    LET qWindowSize == Min(FloorDiv(rrInterval * 8, 100), 18)
        pWindowSize == Min(FloorDiv(rrInterval * 15, 100), 27)
        sWindowSize == Min(FloorDiv(rrInterval * 8, 100), 18)
        tStartOffset == FloorDiv(rrInterval * 15, 100)
        tWindowSize == Min(FloorDiv(rrInterval * 25, 100), 54)
    IN  CHOOSE w \in
          {<<WavePoint(data, "R", r, currentIndex),
             WavePoint(data, "Q", qIndex, currentIndex),
             WavePoint(data, "P",
                       FirstArgMax(data, Max(0, qIndex - pWindowSize),
                                   Max(Max(0, qIndex - pWindowSize),
                                       qIndex - FloorDiv(rrInterval, 100)) - 1),
                       currentIndex),
             WavePoint(data, "S", sIndex, currentIndex),
             WavePoint(data, "T",
                       FirstArgMax(data, sIndex + tStartOffset,
                                   Min(Len(data) - 1,
                                       sIndex + tStartOffset + tWindowSize)),
                       currentIndex)>> :
             qIndex \in {FirstArgMin(data, Max(0, r - qWindowSize), r - 1)},
             sIndex \in {FirstArgMin(data, r + 1,
                                     Min(Len(data) - 1, r + sWindowSize))}} : TRUE

\* Variant without the edge check
TooCloseToEdge_Never(rPeakIndex, length) == FALSE

\* "rPeakIndex < 9 || rPeakIndex >= data.length - 9"
TooCloseToEdge(rPeakIndex, length) ==
    rPeakIndex < 9 \/ rPeakIndex >= length - 9

RECURSIVE WavesLoop(_, _, _, _, _, _)
WavesLoop(acc, data, peaks, peakIdx, sr, currentIndex) ==
    IF peakIdx > Len(peaks) THEN acc
    ELSE CHOOSE r \in
           {WavesLoop(next, data, peaks, peakIdx + 1, sr, currentIndex) :
              next \in {IF TooCloseToEdge(peaks[peakIdx], Len(data))
                        THEN acc
                        ELSE acc \o BeatWaves(data, peaks[peakIdx],
                                              LocalRR(peaks, peakIdx, sr),
                                              currentIndex)}} : TRUE

detectWaves(data, unit, rPeaks, currentIndex, sr) ==
    CHOOSE r \in
      {IF Len(validRPeaks) = 0 THEN << >>
       ELSE WavesLoop(<< >>, data, validRPeaks, 1, sr, currentIndex) :
         validRPeaks \in {SelectSeq(rPeaks,
                            LAMBDA pk : isValidQRS(data, unit, pk, sr))}} : TRUE

\* maxValue = topValues[0] || 0, where topValues holds the
\* floor(0.05 * length) largest samples: the maximum when there is one.
TopValue(data) ==
    IF FloorDiv(Len(data) * 5, 100) = 0 THEN 0
    ELSE CHOOSE v \in {data[i] : i \in 1..Len(data)} :
             \A i \in 1..Len(data) : data[i] <= v

\* "let isPeak = true; for (j ...) if (j !== i && data[j] > data[i]) ..."
IsWindowPeak(data, i, peakWindow) ==
    \A j \in Max(0, i - peakWindow)..Min(Len(data) - 1, i + peakWindow) :
        ~(j # i /\ Gt(D(data, j), D(data, i)))

\* The indices the scan does not pass over with "continue":
\* data[i] >= rThreshold = 0.6 * maxValue
AboveThreshold(data, maxValue) ==
    {i \in 0..(Len(data) - 1) : ~(D(data, i) * 10 < maxValue * 6)}

\* Step 1 of detectDirectWaves for a rate sr >= 0: the for loop from
\* position i on, over the indices cand that reach the threshold.
RECURSIVE DirectScan(_, _, _, _, _, _)
DirectScan(rPeaks, data, cand, i, peakWindow, skipWindow) ==
    LET rest == {c \in cand : c >= i /\ c < Len(data) - peakWindow}
    IN  IF rest = {} THEN rPeaks
        ELSE CHOOSE r \in
               {IF IsWindowPeak(data, c, peakWindow)
                THEN DirectScan(Append(rPeaks, c), data, cand,
                                c + skipWindow + 1, peakWindow, skipWindow)
                ELSE DirectScan(rPeaks, data, cand, c + 1, peakWindow,
                                skipWindow) :
                  c \in {CHOOSE m \in rest : \A o \in rest : m <= o}} : TRUE

\* detectDirectWaves(data, currentIndex) of a detector built for rate sr.
\* With sr < 0, peakWindow and skipWindow are negative: the scan starts at
\* a negative i, where data[i] is undefined and is not below the threshold,
\* the window loop is empty, i is pushed and then moved by
\* skipWindow + 1 <= 0, so i < dataLength - peakWindow stays true and the
\* call never returns.
detectDirectWaves(data, unit, currentIndex, sr) ==
    CHOOSE res \in
      {IF maxValue * 5 < unit THEN [kind |-> "return", points |-> << >>]
       ELSE IF sr < 0 THEN [kind |-> "diverges", points |-> << >>]
       ELSE CHOOSE r \in
              {[kind |-> "return",
                points |-> IF Len(rPeaks) > 0
                           THEN detectWaves(data, unit, rPeaks, currentIndex, sr)
                           ELSE << >>] :
                 rPeaks \in {DirectScan(<< >>, data,
                                        AboveThreshold(data, maxValue),
                                        FloorDiv(sr * 8, 100),
                                        FloorDiv(sr * 8, 100),
                                        FloorDiv(sr * 15, 100))}} : TRUE :
         maxValue \in {TopValue(data)}} : TRUE

\* points.filter(p => p.type === 'R').map(p => p.index)
RIndices(points) ==
    [k \in 1..Len(SelectSeq(points, LAMBDA p : p.type = "R")) |->
        SelectSeq(points, LAMBDA p : p.type = "R")[k].index]

----------------------------------------------------------------------------
(* detectRPeaksECG.  The sample-rate argument is a JavaScript number: a      *)
(* record [k |-> "fin", v |-> integer], or one of NaN, Inf, NegInf.  The    *)
(* options argument is Null when omitted, else the set of its fields as a   *)
(* function from field name to value.                                       *)

Fin(v) == [k |-> "fin", v |-> v]
NaN == [k |-> "NaN", v |-> 0]
Inf == [k |-> "Inf", v |-> 0]
NegInf == [k |-> "NegInf", v |-> 0]

\* Number.isFinite
IsFinite(x) == x.k = "fin"

\* options.adaptiveThreshold as a condition, after the default parameter
\* "options = { adaptiveThreshold: true }" has replaced an omitted argument
AdaptiveOn(options) ==
    IF IsNull(options) THEN TRUE
    ELSE "adaptiveThreshold" \in DOMAIN options[1]
         /\ options[1]["adaptiveThreshold"]

\* reduce((max, x) => Math.max(max, Math.abs(x)), 0)
MaxAbs(signal) ==
    IF Len(signal) = 0 THEN 0
    ELSE CHOOSE v \in {Abs(signal[i]) : i \in 1..Len(signal)} :
             \A i \in 1..Len(signal) : Abs(signal[i]) <= v

\* new PQRSTDetector(rate).detectDirectWaves(data, 0) for any number:
\* with NaN or Infinity the loop condition i < dataLength - peakWindow is
\* false at once; with -Infinity the loop runs as for a negative rate.
DirectWavesAt(data, unit, rate) ==
    IF rate.k = "fin" THEN detectDirectWaves(data, unit, 0, rate.v)
    ELSE IF rate.k = "NegInf" THEN detectDirectWaves(data, unit, 0, -1)
    ELSE [kind |-> "return", points |-> << >>]

\* The body of detectRPeaksECG after the input validation.  The result
\* records the passes made and the buffer handed to the second one.
DetectPasses(signal, unit, rate, options) ==
    CHOOSE res \in
      {IF pass1.kind = "diverges"
       THEN [kind |-> "diverges", peaks |-> << >>, passes |-> 1,
             pass1 |-> << >>, scaledUnit |-> 0]
       ELSE IF Len(RIndices(pass1.points)) > 0
       THEN [kind |-> "return", peaks |-> RIndices(pass1.points),
             passes |-> 1, pass1 |-> RIndices(pass1.points), scaledUnit |-> 0]
       ELSE IF ~AdaptiveOn(options)
       THEN [kind |-> "return", peaks |-> << >>, passes |-> 1,
             pass1 |-> << >>, scaledUnit |-> 0]
       ELSE CHOOSE r2 \in
              {[kind |-> pass2.kind, peaks |-> RIndices(pass2.points),
                passes |-> 2, pass1 |-> << >>,
                scaledUnit |-> Max(MaxAbs(signal), 1)] :
                 pass2 \in {DirectWavesAt(signal, Max(MaxAbs(signal), 1),
                                          rate)}} : TRUE :
         pass1 \in {DirectWavesAt(signal, unit, rate)}} : TRUE

EmptyReturn ==
    [kind |-> "return", peaks |-> << >>, passes |-> 0, pass1 |-> << >>,
     scaledUnit |-> 0]

\* src/unnamed/part_002: with the input validation
detectRPeaksECG(signal, unit, rate, options) ==
    IF Len(signal) = 0 THEN EmptyReturn
    ELSE IF ~IsFinite(rate) \/ rate.v <= 0 THEN EmptyReturn
    ELSE DetectPasses(signal, unit, rate, options)

\* src/src/lib/rPeakDetector.ts: no validation
detectRPeaksECG_lib(signal, unit, rate, options) ==
    DetectPasses(signal, unit, rate, options)

(* Arguments of the calls.  Amplitudes are in thousandths. *)

Unit == 1000

\* Most beats in a signal
MaxPeaks == 2

\* R amplitudes: below the 0.2 floor, between the floor and 0.5, above 0.5
Amplitudes == {100, 300, 800}

\* A signal of n beats on a zero baseline: the R-peaks are 300 samples
\* apart, the first at index 40, and 40 samples follow the last.  With
\* qs, each R has a dip two samples before and two after; with a T bump
\* 60 samples after each R but the last.
BeatSignal(n, amp, qs) ==
    [i \in 1..(80 + 300 * (n - 1)) |->
        LET off == (i - 1 + 260) % 300
        IN  IF off = 0 THEN amp
            ELSE IF qs /\ off = 298 THEN -(amp \div 5)
            ELSE IF qs /\ off = 2 THEN -(amp \div 4)
            ELSE IF off = 60 THEN amp \div 4
            ELSE 0]

\* 80 samples with a beat of height 0.4 at index 40, a dip two samples
\* before it and a dip d samples after it
EdgeDip(d) ==
    [i \in 1..80 |->
        IF i - 1 = 40 THEN 400
        ELSE IF i - 1 = 38 \/ i - 1 = 40 + d THEN -100
        ELSE 0]

Signals ==
    {<< >>, [i \in 1..10 |-> 900], [i \in 1..80 |-> 0]}
    \cup {EdgeDip(d) : d \in {20, 21, 22}}
    \cup {BeatSignal(n, amp, qs) :
             n \in 1..MaxPeaks, amp \in Amplitudes, qs \in BOOLEAN}

\* Candidate R indices inside the buffer, in increasing order: none, one or
\* two of them
CandidateLists(data) ==
    LET cand == {i \in {0, 9, 40, 70, 340} : i < Len(data)}
    IN  {<< >>} \cup {<<a>> : a \in cand}
        \cup UNION {{<<a, b>> : b \in {c \in cand : c > a}} : a \in cand}

NoWavesCall == [data |-> << >>, rPeaks |-> << >>, currentIndex |-> 0,
                ret |-> << >>]

\* pqrstDetector.detectWaves(data, rPeaks, currentIndex) of a detector built
\* for the default rate.  The call keeps no state: a behaviour is one call.
DetectWaves(data, rPeaks, currentIndex) ==
    /\ wavesCall = NoWavesCall
    /\ wavesCall' = [data |-> data, rPeaks |-> rPeaks,
                     currentIndex |-> currentIndex,
                     ret |-> detectWaves(data, Unit, rPeaks, currentIndex,
                                         sampleRate)]

Rates == {Fin(360), Fin(250), Fin(0), Fin(-360), NaN, Inf, NegInf}

OptionsInputs ==
    {Null,
     Some([f \in {} |-> TRUE]),
     Some([f \in {"adaptiveThreshold"} |-> TRUE]),
     Some([f \in {"adaptiveThreshold"} |-> FALSE])}

\* The arguments of a call that has not been made yet
PendingCall(signal, rate, options) ==
    [version |-> "none", signal |-> signal, rate |-> rate, options |-> options,
     result |-> EmptyReturn]

NoRpCall == PendingCall(<< >>, Fin(360), Null)

\* detectRPeaksECG(signal, rate, options) of src/unnamed/part_002
DetectRPeaksECG ==
    /\ rpCall.version = "none"
    /\ \E r \in {detectRPeaksECG(rpCall.signal, Unit, rpCall.rate,
                                  rpCall.options)} :
           rpCall' = [rpCall EXCEPT !.version = "part_002", !.result = r]

\* detectRPeaksECG(signal, rate, options) of src/src/lib/rPeakDetector.ts
DetectRPeaksECG_lib ==
    /\ rpCall.version = "none"
    /\ \E r \in {detectRPeaksECG_lib(rpCall.signal, Unit, rpCall.rate,
                                      rpCall.options)} :
           rpCall' = [rpCall EXCEPT !.version = "lib", !.result = r]

----------------------------------------------------------------------------
(* PanTompkinsDetector (src/unnamed/part_006), built with the default       *)
(* sampleRate 360 and usePrefiltered = true, so bandpassFilter returns its  *)
(* input and fsScale is 1.  The input samples are integers in any unit:     *)
(* the normalisation divides the unit out.  The normalised signal is kept   *)
(* in hundredths.  The differentiated signal is kept without its factor     *)
(* 1/8 and the integrated one without its factor 1/windowSize, so an        *)
(* integrated value, a threshold or a peak amplitude v stands for           *)
(* v / IntegratedUnit.                                                      *)

windowSize == RoundDiv(sampleRate * 15, 100)
minDistance == RoundDiv(sampleRate * 2, 10)
searchWindow == RoundDiv(sampleRate * 3, 100)
rrMin == RoundDiv(sampleRate * 36, 100)

IntegratedUnit == 64 * windowSize * 100 * 100

\* 1e-6, rounded up to a whole number of IntegratedUnit-ths
Epsilon == (IntegratedUnit + 999999) \div 1000000

initialSignalThreshold == IntegratedUnit \div 4
initialNoiseThreshold == IntegratedUnit \div 10

\* A function on 1..n as a tuple
AsSeq(f, n) == << >> \o [i \in 1..n |-> f[i]]

\* filtered.map(v => (v - mean) / std), std || 1, in hundredths:
\* (v - mean) / std = (n * v - sum) / sqrt(n * sum of squares - sum^2)
Normalize(filtered) ==
    CHOOSE norm \in
      {IF den = 0 THEN [i \in 1..n |-> 0]
       ELSE [i \in 1..n |->
               IF n * filtered[i] >= sum
               THEN ((n * filtered[i] - sum) * 1000) \div den
               ELSE -(((sum - n * filtered[i]) * 1000) \div den)] :
         n \in {Len(filtered)},
         sum \in {SumRange(filtered, 1, Len(filtered))},
         den \in {ISqrt(100 * (Len(filtered)
                               * SumRange([i \in 1..Len(filtered) |->
                                             filtered[i] * filtered[i]],
                                          1, Len(filtered))
                               - SumRange(filtered, 1, Len(filtered))
                                 * SumRange(filtered, 1, Len(filtered))))}} : TRUE

\* differentiate followed by square, without the factor (fsScale / 8)^2
DifferentiateSquare(norm) ==
    LET n == Len(norm)
    IN  AsSeq([k \in 1..n |->
                 IF k - 1 >= 2 /\ k - 1 < n - 2
                 THEN (2 * norm[k + 2] + norm[k + 1] - norm[k - 1]
                       - 2 * norm[k - 2])
                      * (2 * norm[k + 2] + norm[k + 1] - norm[k - 1]
                         - 2 * norm[k - 2])
                 ELSE 0], n)

\* movingWindowIntegrate, without the division by windowSize: the running
\* sum at i holds data[i - windowSize + 1 .. i]
movingWindowIntegrate(squared) ==
    AsSeq([k \in 1..Len(squared) |->
             SumRange(squared, Max(1, k - windowSize + 1), k)], Len(squared))

\* sortedData[idx] of the descending sort, idx = floor(0.05 * length)
TopSorted(integrated) ==
    LET idx == FloorDiv(Len(integrated) * 5, 100)
    IN  CHOOSE v \in {integrated[k] : k \in 1..Len(integrated)} :
            /\ Cardinality({k \in 1..Len(integrated) : integrated[k] > v}) <= idx
            /\ Cardinality({k \in 1..Len(integrated) : integrated[k] >= v}) > idx

\* slice(-8).reduce(sum) / Math.min(8, length)
RecentAvg(amps) ==
    SumRange(amps, Max(1, Len(amps) - 7), Len(amps)) \div Min(8, Len(amps))

\* "this.peakLoc.length > 0 ? this.peakLoc[this.peakLoc.length - 1]
\*  : -minDistance * 10"
lastPeakIdx(st) ==
    IF Len(st.peakLoc) > 0 THEN st.peakLoc[Len(st.peakLoc)]
    ELSE -minDistance * 10

\* What findPeaks does at a local maximum i of value v.  st holds the
\* detector's fields and the rPeaks of this call.
PeakStep(st, i, v) ==
    IF v > st.signalThreshold
    THEN IF i - lastPeakIdx(st) >= minDistance
         THEN CHOOSE r \in
                {[st EXCEPT !.rPeaks = Append(@, i),
                            !.peakAmp = amps,
                            !.peakLoc = Append(@, i),
                            !.signalThreshold =
                               (7 * @ + Max(st.noiseThreshold
                                            + (RecentAvg(amps)
                                               - st.noiseThreshold) \div 4,
                                            Epsilon)) \div 8] :
                   amps \in {Append(st.peakAmp, v)}} : TRUE
         ELSE IF Len(st.peakAmp) > 0 /\ v > st.peakAmp[Len(st.peakAmp)]
              THEN [st EXCEPT !.peakAmp[Len(st.peakAmp)] = v,
                              !.peakLoc[Len(st.peakLoc)] = i]
              ELSE st
    ELSE IF v > st.noiseThreshold
    THEN CHOOSE r \in
           {[st EXCEPT !.noiseAmp = amps,
                       !.noiseLoc = Append(@, i),
                       !.noiseThreshold =
                          (7 * @ + Max(RecentAvg(amps), Epsilon)) \div 8] :
              amps \in {Append(st.noiseAmp, v)}} : TRUE
    ELSE st

\* The loop "for (let i = 1; i < dataLength - 1; i++)" from position i on,
\* over the set maxima of the local maxima of integrated
RECURSIVE PeakLoop(_, _, _, _)
PeakLoop(st, integrated, maxima, i) ==
    LET rest == {m \in maxima : m >= i}
    IN  IF rest = {} THEN st
        ELSE CHOOSE r \in
               {PeakLoop(PeakStep(st, m, D(integrated, m)), integrated,
                         maxima, m + 1) :
                  m \in {CHOOSE m \in rest : \A o \in rest : m <= o}} : TRUE

\* The refinement loop: the first largest |filtered| within searchWindow
\* of each rPeak, kept if it reaches ampThresh
RefinePeaks(rPeaks, filtered, recentPeakAvg) ==
    LET absF == [k \in 1..Len(filtered) |-> Abs(filtered[k])]
        Refined(peakIdx) ==
            FirstArgMax(absF, Max(0, peakIdx - searchWindow),
                        Min(Len(filtered) - 1, peakIdx + searchWindow))
        \* maxVal >= max(0.25 * recentPeakAvg, 1e-6), or >= 1e-6
        Reaches(maxVal) ==
            maxVal >= Max((recentPeakAvg + 4 * (IntegratedUnit \div 100) - 1)
                          \div (4 * (IntegratedUnit \div 100)), 1)
    IN  CHOOSE r \in
          {SelectSeq([k \in 1..Len(rPeaks) |-> Refined(rPeaks[k])],
                     LAMBDA m : Reaches(D(a, m))) : a \in {AsSeq(absF, Len(filtered))}} : TRUE

\* Array.from(new Set(refinedPeaks)).sort((a, b) => a - b)
RECURSIVE SortedSet(_)
SortedSet(S) ==
    IF S = {} THEN << >>
    ELSE CHOOSE r \in
           {<<m>> \o SortedSet(S \ {m}) :
              m \in {CHOOSE m \in S : \A o \in S : m <= o}} : TRUE

\* The T-wave rejection loop from position k of finalPeaks
RECURSIVE TWaveFilter(_, _, _, _)
TWaveFilter(tWaveFiltered, finalPeaks, k, prevFiltered) ==
    IF k > Len(finalPeaks) THEN tWaveFiltered
    ELSE CHOOSE r \in
           {TWaveFilter(next, finalPeaks, k + 1, prevFiltered) :
              next \in
                {IF k = 1 THEN <<finalPeaks[1]>>
                 ELSE LET currIdx == finalPeaks[k]
                          prevIdx == tWaveFiltered[Len(tWaveFiltered)]
                      IN  IF /\ currIdx - prevIdx < rrMin
                             /\ 2 * Abs(D(prevFiltered, currIdx))
                                  < Abs(D(prevFiltered, prevIdx))
                          THEN tWaveFiltered
                          ELSE Append(tWaveFiltered, currIdx)}} : TRUE

LocalMaxima(integrated) ==
    {i \in 1..(Len(integrated) - 2) :
        /\ D(integrated, i) > D(integrated, i - 1)
        /\ D(integrated, i) >= D(integrated, i + 1)}

\* findPeaks(integrated, filtered) on the detector fields f: the fields
\* after the call, with the candidates rPeaks and the returned list ret
findPeaks(f, integrated, filtered) ==
    IF Len(integrated) < 5 THEN f
    ELSE CHOOSE res \in
      {CHOOSE r \in
         {[st EXCEPT !.ret = TWaveFilter(<< >>, finalPeaks, 1, filtered)] :
            finalPeaks \in
              {SortedSet({refined[k] : k \in 1..Len(refined)}) :
                 refined \in {RefinePeaks(st.rPeaks, filtered,
                                          IF Len(st.peakAmp) > 0
                                          THEN RecentAvg(st.peakAmp)
                                          ELSE 0)}}} : TRUE :
         st \in {PeakLoop(IF Len(f.peakAmp) = 0
                          THEN [f EXCEPT
                                  !.signalThreshold = (top * 6) \div 10,
                                  !.noiseThreshold = (top * 2) \div 10]
                          ELSE f,
                          integrated, LocalMaxima(integrated), 1) :
                   top \in {TopSorted(integrated)}}} : TRUE

\* detectQRS(data) on the detector fields f
detectQRS(f, data) ==
    CHOOSE res \in
      {CHOOSE r \in
         {findPeaks(f, integrated, norm) :
            integrated \in
              {movingWindowIntegrate(squared) :
                 squared \in {DifferentiateSquare(norm)}}} : TRUE :
         norm \in {AsSeq(Normalize(data), Len(data))}} : TRUE

(* Input buffers: 300 samples in tenths, zero except for the features. *)

BufferLen == 300

\* A one-sample spike of height h at index p
Spike(p, h) == [at |-> p, width |-> 1, height |-> h]
\* A rectangular pulse
Pulse(p, w, h) == [at |-> p, width |-> w, height |-> h]

Buffer(features) ==
    AsSeq([k \in 1..BufferLen |->
             IF \E ft \in features : k - 1 >= ft.at /\ k - 1 < ft.at + ft.width
             THEN (CHOOSE ft \in features :
                       k - 1 >= ft.at /\ k - 1 < ft.at + ft.width).height
             ELSE 0], BufferLen)

\* Most detectQRS calls on one detector
MaxCalls == 2

\* Features of distinct heights, so that no two maxima of the integrated
\* signal are equal
QrsInputs ==
    {<<0, 0, 10, 0>>, AsSeq([k \in 1..BufferLen |-> 0], BufferLen),
     Buffer({Spike(100, 10)}),
     Buffer({Spike(100, 10), Spike(250, 9)}),
     Buffer({Spike(100, 10), Spike(180, 8)}),
     Buffer({Spike(100, 6), Spike(160, 10)}),
     Buffer({Spike(100, 9), Spike(160, 10)}),
     Buffer({Spike(100, 10), Spike(160, 3)}),
     Buffer({Spike(30, 7), Spike(200, 10)}),
     Buffer({Spike(60, 8), Spike(140, 10), Spike(240, 9)}),
     Buffer({Pulse(100, 72, 10), Pulse(172, 128, 1)}),
     Buffer({Pulse(100, 80, 10), Pulse(180, 120, 2)})}

NoQrsCall == [op |-> "new", data |-> << >>, rPeaks |-> << >>, ret |-> << >>]

DetectQRS(data) ==
    /\ qrsCalls < MaxCalls
    /\ \E r \in {detectQRS([signalThreshold |-> signalThreshold,
                            noiseThreshold |-> noiseThreshold,
                            peakAmp |-> peakAmp, peakLoc |-> peakLoc,
                            noiseAmp |-> noiseAmp, noiseLoc |-> noiseLoc,
                            rPeaks |-> << >>, ret |-> << >>], data)} :
           /\ signalThreshold' = r.signalThreshold
           /\ noiseThreshold' = r.noiseThreshold
           /\ peakAmp' = r.peakAmp
           /\ peakLoc' = r.peakLoc
           /\ noiseAmp' = r.noiseAmp
           /\ noiseLoc' = r.noiseLoc
           /\ qrsCall' = [op |-> "detectQRS", data |-> data,
                          rPeaks |-> r.rPeaks, ret |-> r.ret]
    /\ qrsCalls' = qrsCalls + 1

ResetQRS ==
    /\ qrsCall.op # "reset"
    /\ signalThreshold' = initialSignalThreshold
    /\ noiseThreshold' = initialNoiseThreshold
    /\ peakAmp' = << >>
    /\ peakLoc' = << >>
    /\ noiseAmp' = << >>
    /\ noiseLoc' = << >>
    /\ qrsCall' = [NoQrsCall EXCEPT !.op = "reset"]
    /\ UNCHANGED qrsCalls

----------------------------------------------------------------------------
(* SessionAnalyzer (src/src/lib/sessionAnalyzer.ts).  An analyzer owns a    *)
(* PQRSTDetector, an ECGIntervalCalculator and an HRVCalculator, all built  *)
(* for 360 Hz; its fields are those of the two calculators.  A session is   *)
(* a record of its stored intervals (null or a record), its stored points,  *)
(* its samples and the patient's gender.                                    *)

Analyzers == {"a", "b"}

\* new SessionAnalyzer(360)
NewAnalyzer ==
    [lastIntervals |-> Null, gender |-> "male", rrIntervals |-> << >>,
     resets |-> 0, sinceReset |-> 0, sessions |-> 0, session |-> Null,
     result |-> Null]

\* The record set when the session holds neither intervals nor points
NoIntervals ==
    [rr |-> 0, bpm |-> 0, pr |-> 0, qrs |-> 0, qt |-> 0, qtc |-> 0,
     status |-> [rr |-> "unknown", bpm |-> "unknown", pr |-> "unknown",
                 qrs |-> "unknown", qt |-> "unknown", qtc |-> "unknown"]]

\* session.intervals after "if (!intervals) { ... }": the stored record, or
\* what a new calculator makes of the stored points, or the empty record
StoredIntervals(session) ==
    IF ~IsNull(session.intervals) THEN session.intervals
    ELSE IF Len(session.pqrstPoints) > 0
    THEN calculateIntervals(session.pqrstPoints, Null, "male").ret
    ELSE Some(NoIntervals)

\* The "intervals" part of the result: "intervals?.pr || 0", ...
ResultIntervals(intervals) ==
    IF IsNull(intervals)
    THEN [pr |-> 0, prStatus |-> "unknown", qrs |-> 0, qrsStatus |-> "unknown",
          qt |-> 0, qtc |-> 0, qtcStatus |-> "unknown"]
    ELSE [pr |-> intervals[1].pr, prStatus |-> intervals[1].status.pr,
          qrs |-> intervals[1].qrs, qrsStatus |-> intervals[1].status.qrs,
          qt |-> intervals[1].qt, qtc |-> intervals[1].qtc,
          qtcStatus |-> intervals[1].status.qtc]

\* The "hrv" part of the result, from getAllMetrics() and
\* getPhysiologicalState()
ResultHrv(buf) ==
    CHOOSE r \in
      {[rmssd |-> m.rmssd, sdnn |-> m.sdnn, pnn50 |-> m.pnn50,
        triangularIndex |-> m.triangularIndex, lfhfRatio |-> m.lfhf,
        physiologicalState |-> getPhysiologicalState(buf)] :
         m \in {getAllMetrics(buf)}} : TRUE

\* analyzeSession(session) on the analyzer a
AnalyzeSession(a, session) ==
    \E kept \in {StoredIntervals(session)} :
    \E peaks \in {RIndices(detectDirectWaves(session.ecgData, Unit, 0,
                                             sampleRate).points)} :
    \E points \in {detectWaves(session.ecgData, Unit, peaks, 0, sampleRate)} :
    \E calc \in {IF IsNull(kept)
                 THEN calculateIntervals(points, analyzers[a].lastIntervals,
                                         session.gender)
                 ELSE [ret |-> kept, last |-> analyzers[a].lastIntervals,
                       fresh |-> FALSE]} :
    \E buf \in {extractRRFromPeaks(analyzers[a].rrIntervals, peaks)} :
        analyzers' =
            [analyzers EXCEPT
               ![a] = [lastIntervals |-> calc.last,
                       gender |-> session.gender,
                       rrIntervals |-> buf,
                       resets |-> @.resets,
                       sinceReset |-> @.sinceReset + 1,
                       sessions |-> @.sessions + 1,
                       session |-> Some(session),
                       result |-> Some([intervals |-> ResultIntervals(calc.ret),
                                        hrv |-> ResultHrv(buf)])]]

\* reset() on the analyzer a: "this.hrvCalculator.reset()" and nothing else
ResetAnalyzer(a) ==
    analyzers' = [analyzers EXCEPT ![a].rrIntervals = << >>,
                                   ![a].resets = 1,
                                   ![a].sinceReset = 0]

(* Inputs of the analyzer: recordings on a zero baseline with the R-peaks   *)
(* at the given indices.                                                    *)

\* Most sessions an analyzer is given
MaxSessions == 2

\* len samples with a beat of height amp at every index of rs; with qs,
\* each beat has a dip two samples before and two after
Recording(len, rs, amp, qs) ==
    [i \in 1..len |->
        IF (i - 1) \in rs THEN amp
        ELSE IF qs /\ (i + 1) \in rs THEN -(amp \div 5)
        ELSE IF qs /\ (i - 3) \in rs THEN -(amp \div 4)
        ELSE 0]

\* A session whose stored points are a lone R point, which no calculator
\* turns into intervals
Unmeasured(ecgData) ==
    [intervals |-> Null,
     pqrstPoints |-> <<[type |-> "R", index |-> 40, absolutePosition |-> 40]>>,
     ecgData |-> ecgData, gender |-> "male"]

Sessions ==
    {Unmeasured(Recording(80, {40}, 800, TRUE)),
     Unmeasured(Recording(80, {40}, 800, FALSE)),
     Unmeasured(Recording(80, {}, 0, FALSE)),
     Unmeasured(Recording(740, {40, 340, 700}, 800, TRUE)),
     [intervals |-> Null, pqrstPoints |-> << >>,
      ecgData |-> Recording(80, {40}, 800, TRUE), gender |-> "female"]}

NextAnalyzer ==
    /\ \E a \in Analyzers :
          \/ /\ analyzers[a].sessions < MaxSessions
             /\ \E session \in Sessions : AnalyzeSession(a, session)
          \/ /\ analyzers[a].sinceReset > 0
             /\ ResetAnalyzer(a)

----------------------------------------------------------------------------
(* tfLoader (src/unnamed/part_001).  The module variables are tfModule,     *)
(* modelCache, loadingPromise and modelLoadingPromise.  A promise is an     *)
(* entry of loader.promises and is named by its position there; a promise  *)
(* variable holds null or such a position.  An async function runs without *)
(* interruption up to its next await; what it awaits settles in a later    *)
(* step, and the function resumes in a step after that.  A model instance  *)
(* is named by the position of the promise of the load that produced it.   *)

NewLoader ==
    [tfModule |-> Null, modelCache |-> Null, loadingPromise |-> Null,
     modelLoadingPromise |-> Null, promises |-> << >>,
     imports |-> 0, loads |-> 0, clears |-> 0, clearedAfterLoad |-> FALSE]

\* Variant that never sees an import in flight
ImportInFlight_Never(loadingPromise) == FALSE

\* "if (loadingPromise)"
ImportInFlight(loadingPromise) == ~IsNull(loadingPromise)

\* loadTensorFlow() up to its first await or its return: the new module
\* variables and the promise awaited (null when tfModule is returned)
StartLoadTensorFlow(l) ==
    IF ~IsNull(l.tfModule) THEN [l |-> l, wait |-> Null]
    ELSE IF ImportInFlight(l.loadingPromise)
    THEN [l |-> l, wait |-> l.loadingPromise]
    ELSE [l |-> [l EXCEPT !.promises = Append(@, [kind |-> "import",
                                                  state |-> "pending",
                                                  stage |-> "import",
                                                  tf |-> Null]),
                          !.loadingPromise = Some(Len(l.promises) + 1),
                          !.imports = @ + 1],
          wait |-> Some(Len(l.promises) + 1)]

Returned(v) == [kind |-> "value", v |-> v]
Threw == [kind |-> "throws", v |-> Null]
Pending == [kind |-> "pending", v |-> Null]

\* A call: its function, the promise it awaits, its outcome, and history:
\* the promises that existed when it began and whether a clearCache that
\* followed a successful load came before it
NewCall(fn, l, wait, ret) ==
    [fn |-> fn, wait |-> wait, ret |-> ret, seen |-> Len(l.promises),
     afterClear |-> l.clearedAfterLoad]

\* The state of what an await waits for; a value that is not a promise
\* counts as resolved
Awaited(wait) ==
    IF IsNull(wait) THEN "resolved" ELSE loader.promises[wait[1]].state

\* A call of loadTensorFlow()
CallLoadTensorFlow ==
    \E r \in {StartLoadTensorFlow(loader)} :
        /\ loader' = r.l
        /\ loaderCalls' =
               Append(loaderCalls,
                      IF IsNull(r.wait)
                      THEN NewCall("loadTensorFlow", loader, Null,
                                   Returned(loader.tfModule))
                      ELSE NewCall("loadTensorFlow", loader, r.wait, Pending))

\* A call of loadECGModel().  When it starts the load, the async function
\* it invokes runs up to "await loadTensorFlow()" before the promise is
\* stored in modelLoadingPromise.
CallLoadECGModel ==
    IF ~IsNull(loader.modelCache)
    THEN /\ loaderCalls' = Append(loaderCalls,
                                  NewCall("loadECGModel", loader, Null,
                                          Returned(loader.modelCache)))
         /\ UNCHANGED loader
    ELSE IF ~IsNull(loader.modelLoadingPromise)
    THEN /\ loaderCalls' = Append(loaderCalls,
                                  NewCall("loadECGModel", loader,
                                          loader.modelLoadingPromise, Pending))
         /\ UNCHANGED loader
    ELSE \E r \in {StartLoadTensorFlow(loader)} :
           /\ loader' = [r.l EXCEPT
                           !.promises = Append(@, [kind |-> "model",
                                                   state |-> "pending",
                                                   stage |-> "tf",
                                                   tf |-> r.wait]),
                           !.modelLoadingPromise = Some(Len(r.l.promises) + 1),
                           !.loads = @ + 1]
           /\ loaderCalls' = Append(loaderCalls,
                                    NewCall("loadECGModel", loader,
                                            Some(Len(r.l.promises) + 1),
                                            Pending))

\* import('@tensorflow/tfjs') and tf.ready() settle: on success the then
\* callback sets tfModule
SettleImport(p, ok) ==
    /\ loader.promises[p].kind = "import"
    /\ loader.promises[p].state = "pending"
    /\ loader' = IF ok
                 THEN [loader EXCEPT !.tfModule = Some("tf"),
                                     !.promises[p].state = "resolved"]
                 ELSE [loader EXCEPT !.promises[p].state = "rejected"]
    /\ UNCHANGED loaderCalls

\* The load sequence resumes after "await loadTensorFlow()"
ModelGotTensorFlow(m) ==
    /\ loader.promises[m].kind = "model"
    /\ loader.promises[m].state = "pending"
    /\ loader.promises[m].stage = "tf"
    /\ Awaited(loader.promises[m].tf) # "pending"
    /\ loader' =
           IF \/ Awaited(loader.promises[m].tf) = "rejected"
              \/ IsNull(loader.tfModule)
           THEN [loader EXCEPT !.promises[m].state = "rejected"]
           ELSE [loader EXCEPT !.promises[m].stage = "fetch"]
    /\ UNCHANGED loaderCalls

\* The loop over the model sources ends: with a model, which is cached, or
\* with 'Model not found in any source'
SettleModel(m, ok) ==
    /\ loader.promises[m].kind = "model"
    /\ loader.promises[m].state = "pending"
    /\ loader.promises[m].stage = "fetch"
    /\ loader' = IF ok
                 THEN [loader EXCEPT !.modelCache = Some(m),
                                     !.promises[m].state = "resolved"]
                 ELSE [loader EXCEPT !.promises[m].state = "rejected"]
    /\ UNCHANGED loaderCalls

\* The call number c resumes after its await: "return tfModule" or
\* "return modelCache", or the rejection is thrown
Resume(c) ==
    /\ loaderCalls[c].ret = Pending
    /\ Awaited(loaderCalls[c].wait) # "pending"
    /\ loaderCalls' =
           [loaderCalls EXCEPT
              ![c].ret =
                 IF Awaited(loaderCalls[c].wait) = "rejected"
                 THEN Threw
                 ELSE IF loaderCalls[c].fn = "loadTensorFlow"
                 THEN Returned(loader.tfModule)
                 ELSE Returned(loader.modelCache)]
    /\ UNCHANGED loader

\* clearCache()
ClearCache ==
    /\ loader' = [loader EXCEPT
                    !.tfModule = Null,
                    !.modelCache = Null,
                    !.loadingPromise = Null,
                    !.clears = @ + 1,
                    !.clearedAfterLoad = @ \/ ~IsNull(loader.modelCache)]
    /\ UNCHANGED loaderCalls

\* Most calls of the two load functions, and most calls of clearCache
MaxLoaderCalls == 3
MaxClears == 1

NextLoader ==
    \/ /\ Len(loaderCalls) < MaxLoaderCalls
       /\ CallLoadTensorFlow
    \/ /\ Len(loaderCalls) < MaxLoaderCalls
       /\ CallLoadECGModel
    \/ \E p \in 1..Len(loader.promises), ok \in BOOLEAN : SettleImport(p, ok)
    \/ \E m \in 1..Len(loader.promises) : ModelGotTensorFlow(m)
    \/ \E m \in 1..Len(loader.promises), ok \in BOOLEAN : SettleModel(m, ok)
    \/ \E c \in 1..Len(loaderCalls) : Resume(c)
    \/ /\ loader.clears < MaxClears
       /\ ClearCache

----------------------------------------------------------------------------
(* BPMCalculator (src/unnamed/part_007), constructed with its default      *)
(* arguments.  Rates are in thousandths of a beat per minute; the range    *)
(* test is made on the exact quotient.                                     *)

minBPM == 40
maxBPM == 200

\* The sum of the differences of consecutive peaks
IntervalSum(peaks) == SumRange([i \in 1..(Len(peaks) - 1) |-> peaks[i + 1] - peaks[i]],
                               1, Len(peaks) - 1)

\* calculateBPMFromPeaks(peaks): null, or the rate 60 * sampleRate divided
\* by the average interval.  An average of 0 gives Infinity and a negative
\* average a negative rate; both fail the range test.
calculateBPMFromPeaks(peaks) ==
    IF Len(peaks) < 2 THEN Null
    ELSE LET n == Len(peaks) - 1
             sum == IntervalSum(peaks)
         IN  IF sum <= 0 THEN Null
             ELSE IF \/ 60 * sampleRate * n < minBPM * sum
                     \/ 60 * sampleRate * n > maxBPM * sum
             THEN Null
             ELSE Some((60 * sampleRate * n * 1000) \div sum)

CalculateBPMFromPeaks(peaks) ==
    /\ bpmCall' = [peaks |-> Some(peaks), ret |-> calculateBPMFromPeaks(peaks)]

\* Peak lists: none, one, and two or three peaks whose intervals give rates
\* on both sides of 40, 180 and 200 beats per minute
BpmIntervals == {0, 100, 107, 108, 113, 119, 120, 121, 216, 539, 540, 541}
BpmInputs ==
    {<< >>, <<50>>}
      \cup {<<50, 50 + d>> : d \in BpmIntervals}
      \cup {<<50, 50 + d, 50 + d + e>> : d \in BpmIntervals, e \in BpmIntervals}

----------------------------------------------------------------------------
(* Filters (src/unnamed/part_003).  Every filter is made of biquad sections *)
(* in direct form II.  Taps and samples are in millionths, coefficients in  *)
(* units of 1e-8.                                                           *)

\* c * z of a coefficient and a value, rounded to the nearest millionth; both
\* factors are split in halves of four digits to stay within 32 bits
MulFix(c, z) ==
    LET c1 == Abs(c) \div 10000
        c0 == Abs(c) % 10000
        z1 == Abs(z) \div 10000
        z0 == Abs(z) % 10000
        r  == c1 * z1
              + (c1 * z0 + c0 * z1 + (c0 * z0 + 5000) \div 10000 + 5000)
                    \div 10000
    IN  IF (c < 0) = (z < 0) THEN r ELSE -r

\* Variant whose highpass has a1 in the place of b1 and whose lowpass has b0
\* in the place of b1
Coeffs_Swapped ==
    [highpass |-> <<-198765881, 98773450, 99384833, -198765881, 99384833>>,
     lowpass  |-> <<-127963242, 47759225, 4948996, 4948996, 4948996>>,
     notch0   |-> <<-121708497, 95085885, 95183262, -122439830, 95183262>>,
     notch1   |-> <<-129217906, 95280880, 100000000, -128635883, 100000000>>]

\* <<a1, a2, b0, b1, b2>> of each section, as in
\* "x0 = output - (a1 * z1) - (a2 * z2); output = b0 * x0 + b1 * z1 + b2 * z2"
Coeffs ==
    [highpass |-> <<-198765881, 98773450, 99384833, -198769666, 99384833>>,
     lowpass  |-> <<-127963242, 47759225, 4948996, 9897991, 4948996>>,
     notch0   |-> <<-121708497, 95085885, 95183262, -122439830, 95183262>>,
     notch1   |-> <<-129217906, 95280880, 100000000, -128635883, 100000000>>]

\* One section: the output and the new taps (z2 = z1; z1 = x0)
Biquad(c, z1, z2, x) ==
    CHOOSE r \in
      {[out |-> MulFix(c[3], x0) + MulFix(c[4], z1) + MulFix(c[5], z2),
        z1 |-> x0, z2 |-> z1] :
         x0 \in {x - MulFix(c[1], z1) - MulFix(c[2], z2)}} : TRUE

\* The taps after construction and after reset(): <<z1_0, z2_0>> of the
\* highpass and of the lowpass, <<z1_0, z2_0, z1_1, z2_1>> of the notch
ZeroTaps ==
    [highpass |-> <<0, 0>>, notch |-> <<0, 0, 0, 0>>, lowpass |-> <<0, 0>>]

\* HighpassFilter.process, NotchFilter.process, LowpassFilter.process on
\* taps z
process(stage, z, x) ==
    IF stage = "notch"
    THEN CHOOSE r \in
           UNION {{[out |-> s1.out, taps |-> <<s0.z1, s0.z2, s1.z1, s1.z2>>] :
                     s1 \in {Biquad(Coeffs.notch1, z[3], z[4], s0.out)}} :
                    s0 \in {Biquad(Coeffs.notch0, z[1], z[2], x)}} : TRUE
    ELSE CHOOSE r \in
           {[out |-> s0.out, taps |-> <<s0.z1, s0.z2>>] :
              s0 \in {Biquad(Coeffs[stage], z[1], z[2], x)}} : TRUE

\* The stages of order from the k-th on, applied to x one after the other
RECURSIVE ApplyStages(_, _, _, _)
ApplyStages(order, k, taps, x) ==
    IF k > Len(order) THEN [out |-> x, taps |-> taps]
    ELSE CHOOSE r \in
           {ApplyStages(order, k + 1, [taps EXCEPT ![order[k]] = p.taps], p.out) :
              p \in {process(order[k], taps[order[k]], x)}} : TRUE

\* ECGFilterChain.process: "output = this.highpass.process(output);
\* output = this.lowpass.process(output); output = this.notch.process(output)"
ChainOrder == <<"highpass", "lowpass", "notch">>

\* Most process calls on the chain
MaxChainCalls == 5

\* Samples given to the chain, in millionths
ChainInputs == {0, 500000, -250000}

ChainProcess(x) ==
    /\ chainCalls < MaxChainCalls
    /\ \E r \in {ApplyStages(ChainOrder, 1, chain, x)} :
           chain' = r.taps
    /\ chainCalls' = chainCalls + 1
    /\ stages' = ChainOrder

\* ECGFilterChain.reset
ChainReset ==
    /\ chain' = ZeroTaps
    /\ UNCHANGED <<chainCalls, stages>>

\* No filter constructed yet
NoFilter == [stage |-> "none", c |-> 0, taps |-> << >>, out |-> 0, calls |-> 0]

\* A new HighpassFilter or LowpassFilter, which is to be fed the constant c
StartConstant(stage, c) ==
    /\ steady.stage = "none"
    /\ steady' = [stage |-> stage, c |-> c, taps |-> ZeroTaps[stage], out |-> 0,
                  calls |-> 0]

\* process(c) on the filter.  The call counter records only whether a call
\* was made: a call that leaves the taps and the output as they were leaves
\* the filter as it was.
ProcessConstant ==
    /\ steady.stage # "none"
    /\ \E r \in {process(steady.stage, steady.taps, steady.c)} :
           steady' = [steady EXCEPT !.taps = r.taps, !.out = r.out, !.calls = 1]

\* Filters and constants, in millionths.  The taps of the highpass grow to
\* about 13212 times the constant.
SteadyInputs ==
    {<<"highpass", 5000>>, <<"highpass", -3000>>,
     <<"lowpass", 500000>>, <<"lowpass", -250000>>, <<"lowpass", 1000000>>}

----------------------------------------------------------------------------
(* EcgFullPanel (src/unnamed/part_009): the rolling window, the handler of  *)
(* the data characteristic, the peak interval callback and the start of a   *)
(* recording.  A packet is the sequence of its ten raw samples (the int16   *)
(* at byte 1 of each seven bytes).  The React display state (metrics,       *)
(* visible points, BPM text, session metadata) is left out.                 *)

NUM_POINTS == 1000
SAMPLE_RATE == 360
SINGLE_SAMPLE_LEN == 7
NEW_PACKET_LEN == 7 * 10
REFRACTORY_MS == 300
RPEAK_BUFFER_SIZE == 10

\* The content of a window slot that holds NaN
NotANumber == 2000000000

\* Math.max(-1, Math.min(1, x)) of a JavaScript number
ClampUnit(x) ==
    IF x.k = "NaN" THEN NaN
    ELSE IF x.k = "Inf" THEN Fin(Unit)
    ELSE IF x.k = "NegInf" THEN Fin(-Unit)
    ELSE Fin(Max(-Unit, Min(Unit, x.v)))

\* Variant without the clamp
StoredValue_NoClamp(filtered) ==
    IF ~IsFinite(filtered) THEN 0 ELSE filtered.v

\* "if (!isFinite(filtered) || isNaN(filtered)) filtered = 0;
\*  filtered = Math.max(-1, Math.min(1, filtered))": the value stored
StoredValue(filtered) ==
    LET clamped == ClampUnit(IF ~IsFinite(filtered) THEN Fin(0) ELSE filtered)
    IN  IF clamped.k = "fin" THEN clamped.v ELSE NotANumber

\* "filtered = highpass.current.process(norm); filtered = notch.current
\* .process(filtered); filtered = ecg.current.process(filtered)"
HandlerOrder == <<"highpass", "notch", "lowpass">>

\* Variant that never wraps
NextIndex_NoWrap(i) == i + 1

\* "sampleIndex.current = (sampleIndex.current + 1) % NUM_POINTS"
NextIndex(i) == (i + 1) % NUM_POINTS

\* The handler's loop over the samples of one packet: raws[j] is the raw
\* value of the j-th sample, norm = (raw - 2048) / 2048 in millionths
RECURSIVE StoreLoop(_, _, _)
StoreLoop(w, raws, j) ==
    IF j > Len(raws) THEN w
    ELSE CHOOSE r \in
           UNION
             {{StoreLoop(next, raws, j + 1) :
                 next \in
                   {[data |-> [w.data EXCEPT ![w.sampleIndex + 1] = v],
                     abs |-> [w.abs EXCEPT ![w.sampleIndex + 1] = w.totalSamples],
                     sampleIndex |-> NextIndex(w.sampleIndex),
                     totalSamples |-> w.totalSamples + 1,
                     filters |-> f.taps,
                     recorded |-> IF isRecording THEN Append(w.recorded, v)
                                  ELSE w.recorded,
                     stored |-> Append(w.stored, v)] :
                      v \in {StoredValue(Fin(RoundDiv(f.out, 1000)))}}} :
                f \in {ApplyStages(HandlerOrder, 1, w.filters,
                                   RoundDiv((raws[j] - 2048) * 15625, 32))}} : TRUE

\* The characteristicvaluechanged handler
Notify(byteLength, raws) ==
    /\ connected
    /\ IF byteLength = NEW_PACKET_LEN
       THEN \E w \in {StoreLoop([data |-> dataCh0,
                                 abs |-> absoluteSampleIndexBuffer,
                                 sampleIndex |-> sampleIndex,
                                 totalSamples |-> totalSamples,
                                 filters |-> filters,
                                 recorded |-> recorded,
                                 stored |-> stored], raws, 1)} :
                /\ dataCh0' = w.data
                /\ absoluteSampleIndexBuffer' = w.abs
                /\ sampleIndex' = w.sampleIndex
                /\ totalSamples' = w.totalSamples
                /\ filters' = w.filters
                /\ recorded' = w.recorded
                /\ stored' = w.stored
                /\ stages' = HandlerOrder
       ELSE UNCHANGED <<dataCh0, absoluteSampleIndexBuffer, sampleIndex,
                        totalSamples, filters, recorded, stored, stages>>
    /\ UNCHANGED <<connected, pqrstPoints, lastAcceptedSample, rPeakTimestamps,
                   contributions, ticks, isRecording, icVars, hrvVars>>

\* connect(), once the device has answered: the handler is registered, the
\* two calculators are reset
Connect ==
    /\ ~connected
    /\ connected' = TRUE
    /\ rrIntervals' = << >>
    /\ accepted' = << >>
    /\ hrvCall' = [NoHrvCall EXCEPT !.op = "reset", !.before = rrIntervals]
    /\ lastIntervals' = Null
    /\ lastGood' = Null
    /\ icCall' = [NoCall EXCEPT !.op = "reset", !.before = lastIntervals]
    /\ UNCHANGED <<gender, validCall, dataCh0, absoluteSampleIndexBuffer,
                   sampleIndex, totalSamples, pqrstPoints, lastAcceptedSample,
                   rPeakTimestamps, contributions, ticks, filters, isRecording,
                   recorded, stored, stages>>

\* startRecording(), reachable from the record button when connected and
\* not recording; isRecordingRef follows isRecording
StartRecording ==
    /\ connected
    /\ ~isRecording
    /\ isRecording' = TRUE
    /\ recorded' = << >>
    /\ UNCHANGED <<dataCh0, absoluteSampleIndexBuffer, sampleIndex, totalSamples,
                   connected, pqrstPoints, lastAcceptedSample, rPeakTimestamps,
                   contributions, ticks, filters, stored, stages, icVars,
                   hrvVars>>

\* maxAbs < 0.05 || variance < 0.0002, the variance taken as
\* (sum of squares) / n - mean^2 in whole millionths
TooWeakOrFlat(data) ==
    \/ MaxAbs(data) * 100 < 5 * Unit
    \/ \E sum \in {SumRange(data, 1, Len(data))} :
           SumRange([k \in 1..Len(data) |-> data[k] * data[k]], 1, Len(data))
               \div Len(data)
           - (sum \div Len(data)) * (sum \div Len(data)) < 200

\* absolutePeaks.forEach(idx => handleNewRPeak(idx)) from position k on;
\* b holds lastAcceptedSampleRef.current and rPeakTimestamps
RECURSIVE handleNewRPeaks(_, _, _)
handleNewRPeaks(b, absolutePeaks, k) ==
    IF k > Len(absolutePeaks) THEN b
    ELSE CHOOSE r \in
           {handleNewRPeaks(next, absolutePeaks, k + 1) :
              next \in
                {IF /\ ~IsNull(b.last)
                    /\ absolutePeaks[k] - b.last[1]
                         < FloorDiv(REFRACTORY_MS * SAMPLE_RATE, 1000)
                 THEN b
                 ELSE [last |-> Some(absolutePeaks[k]),
                       stamps |->
                         IF Len(b.stamps) < RPEAK_BUFFER_SIZE
                         THEN Append(b.stamps, SamplesToMs9(absolutePeaks[k]))
                         ELSE LastN(Append(b.stamps,
                                           SamplesToMs9(absolutePeaks[k])),
                                    RPEAK_BUFFER_SIZE)]}} : TRUE

\* history: the pairs of absolute sample indices of adjacent peaks whose
\* RR interval extractRRFromPeaks appends
PairsAppended(peaks, abs) ==
    LET idx == SelectSeq([i \in 1..(Len(peaks) - 1) |-> i + 1],
                         LAMBDA i : RRInRange(PeakRR(peaks, i)))
    IN  [k \in 1..Len(idx) |->
           <<D(abs, peaks[idx[k] - 1]), D(abs, peaks[idx[k]])>>]

\* updatePeaks(), as the interval callback runs it when connected
UpdatePeaks ==
    /\ connected
    /\ ticks' = ticks + 1
    /\ IF TooWeakOrFlat(dataCh0)
       THEN /\ pqrstPoints' = << >>
            /\ UNCHANGED <<lastAcceptedSample, rPeakTimestamps, contributions,
                           icVars, hrvVars>>
       ELSE \E peaks \in {detectRPeaksECG(dataCh0, Unit, Fin(SAMPLE_RATE),
                              Some([f \in {"adaptiveThreshold"} |-> TRUE])).peaks} :
            \E guided \in {IF Len(peaks) >= 1
                           THEN detectWaves(dataCh0, Unit, peaks, 0, SAMPLE_RATE)
                           ELSE pqrstPoints} :
            \E points \in {IF Len(peaks) >= 1 /\ Len(guided) > 0 THEN guided
                           ELSE detectDirectWaves(dataCh0, Unit, sampleIndex,
                                                  SAMPLE_RATE).points} :
            \E b \in {handleNewRPeaks(
                        [last |-> lastAcceptedSample, stamps |-> rPeakTimestamps],
                        [k \in 1..Len(peaks) |->
                            D(absoluteSampleIndexBuffer, peaks[k])], 1)} :
            \E r \in {IF Len(points) > 0
                      THEN calculateIntervals(points, lastIntervals, gender)
                      ELSE [ret |-> Null, last |-> lastIntervals,
                            fresh |-> FALSE]} :
                /\ pqrstPoints' = points
                /\ rrIntervals' = extractRRFromPeaks(rrIntervals, peaks)
                /\ accepted' = accepted \o AcceptedOf(peaks, 2)
                /\ hrvCall' = IF Len(peaks) >= 2
                              THEN [NoHrvCall EXCEPT !.op = "extractRRFromPeaks",
                                                     !.peaks = peaks,
                                                     !.before = rrIntervals]
                              ELSE hrvCall
                /\ contributions' =
                       contributions \o PairsAppended(peaks, absoluteSampleIndexBuffer)
                /\ lastAcceptedSample' = b.last
                /\ rPeakTimestamps' = b.stamps
                /\ lastIntervals' = r.last
                /\ lastGood' = IF r.fresh THEN r.ret ELSE lastGood
                /\ icCall' = IF Len(points) > 0
                             THEN [NoCall EXCEPT !.op = "calculateIntervals",
                                                 !.ret = r.ret,
                                                 !.fresh = r.fresh,
                                                 !.before = lastIntervals]
                             ELSE icCall
                /\ UNCHANGED <<gender, validCall>>
    /\ UNCHANGED <<dataCh0, absoluteSampleIndexBuffer, sampleIndex, totalSamples,
                   connected, filters, isRecording, recorded, stored, stages>>

(* Inputs of the panel.  The raw signal rests at 2048 and carries a         *)
(* heartbeat every 300 samples: Q, R, S around sample 45 of each beat.      *)
(* The first FreePackets packets may instead be a packet of large swings,   *)
(* and a packet of another length may arrive at any time.                   *)

\* Most packets of NEW_PACKET_LEN bytes
MaxPackets == 44

\* Most runs of the interval callback
MaxTicks == 2

FreePackets == 1

\* Most packets of NEW_PACKET_LEN bytes when no callback runs
MaxStreamPackets == 102

RawAt(n) ==
    LET off == n % 300
    IN  2048 + (IF off \in {40, 42} THEN -150
                ELSE IF off \in {41, 48, 50} THEN -300
                ELSE IF off \in {43, 47} THEN 400
                ELSE IF off \in {44, 46} THEN 1200
                ELSE IF off = 45 THEN 1800
                ELSE IF off = 49 THEN -500
                ELSE 0)

RegularPacket(first) ==
    [j \in 1..(NEW_PACKET_LEN \div SINGLE_SAMPLE_LEN) |-> RawAt(first + j - 1)]

ExtremePacket ==
    <<10240, 10240, 10240, -6144, -6144, -6144, -6144, 10240, 2048, 2048>>

PacketInputs(total) ==
    {RegularPacket(total)}
    \cup (IF total < FreePackets * 10 THEN {ExtremePacket} ELSE {})

----------------------------------------------------------------------------
(* Specifications, one per component *)

\* The objects that no component above owns
InitAux ==
    /\ analyzers = [a \in Analyzers |-> NewAnalyzer]
    /\ loader = NewLoader
    /\ loaderCalls = << >>
    /\ bpmCall = [peaks |-> Null, ret |-> Null]
    /\ steady = NoFilter
    /\ groupCall = [points |-> Null, ret |-> << >>]

Init ==
    /\ lastIntervals = Null
    /\ gender = "male"
    /\ icCall = NoCall
    /\ lastGood = Null
    /\ validCall = NoValidCall
    /\ rrIntervals = << >>
    /\ accepted = << >>
    /\ hrvCall = NoHrvCall
    /\ rpCall = NoRpCall
    /\ signalThreshold = initialSignalThreshold
    /\ noiseThreshold = initialNoiseThreshold
    /\ peakAmp = << >>
    /\ peakLoc = << >>
    /\ noiseAmp = << >>
    /\ noiseLoc = << >>
    /\ qrsCall = NoQrsCall
    /\ qrsCalls = 0
    /\ dataCh0 = [k \in 1..NUM_POINTS |-> 0]
    /\ absoluteSampleIndexBuffer = [k \in 1..NUM_POINTS |-> 0]
    /\ sampleIndex = 0
    /\ totalSamples = 0
    /\ connected = FALSE
    /\ pqrstPoints = << >>
    /\ lastAcceptedSample = Null
    /\ rPeakTimestamps = << >>
    /\ contributions = << >>
    /\ ticks = 0
    /\ filters = ZeroTaps
    /\ isRecording = FALSE
    /\ recorded = << >>
    /\ stored = << >>
    /\ chain = ZeroTaps
    /\ chainCalls = 0
    /\ stages = << >>
    /\ wavesCall = NoWavesCall
    /\ InitAux

NextIntervals ==
    /\ \/ \E beats \in BeatLists, offset \in Offsets :
              CalculateIntervals(beats, offset)
       \/ ResetIntervals
       \/ \E g \in {"male", "female"} : SetGender(g)
    /\ UNCHANGED <<hrvVars, rpVars, qrsVars, panelVars, chainVars, auxVars, stages>>

SpecIntervals == Init /\ [][NextIntervals]_vars

NextStatus ==
    /\ \/ \E beats \in StatusBeats, offset \in Offsets :
              CalculateIntervals(beats, offset)
       \/ ResetIntervals
       \/ \E intervals \in ValidateInputs : ValidateIntervals(intervals)
    /\ UNCHANGED <<hrvVars, rpVars, qrsVars, panelVars, chainVars, auxVars, stages>>

SpecStatus == Init /\ [][NextStatus]_vars

NextHRV ==
    /\ \/ \E interval \in IntervalInputs(Len(accepted)) : AddRRInterval(interval)
       \/ \E peaks \in PeakInputs(Len(accepted)) : ExtractRRFromPeaks(peaks)
       \/ ResetHRV
    /\ UNCHANGED <<icVars, rpVars, qrsVars, panelVars, chainVars, auxVars, stages>>

SpecHRV == Init /\ [][NextHRV]_vars

\* The HRV calculator as the state estimate sees it
NextState ==
    /\ \/ /\ Len(rrIntervals) < MaxHistory
          /\ \E interval \in RhythmInputs(rrIntervals) : AddRRInterval(interval)
       \/ \E op \in {"getPhysiologicalState", "getMentalState"} : GetState(op)
       \/ CalculateTriangularIndex
    /\ UNCHANGED <<icVars, rpVars, qrsVars, panelVars, chainVars, auxVars, stages>>

SpecState == Init /\ [][NextState]_vars

\* detectRPeaksECG keeps no state between calls: each behaviour is one
\* call, on arguments drawn at the start.
InitRPeak ==
    /\ lastIntervals = Null
    /\ gender = "male"
    /\ icCall = NoCall
    /\ lastGood = Null
    /\ validCall = NoValidCall
    /\ rrIntervals = << >>
    /\ accepted = << >>
    /\ hrvCall = NoHrvCall
    /\ rpCall \in {PendingCall(signal, rate, options) :
                     signal \in Signals, rate \in Rates,
                     options \in OptionsInputs}
    /\ signalThreshold = initialSignalThreshold
    /\ noiseThreshold = initialNoiseThreshold
    /\ peakAmp = << >>
    /\ peakLoc = << >>
    /\ noiseAmp = << >>
    /\ noiseLoc = << >>
    /\ qrsCall = NoQrsCall
    /\ qrsCalls = 0
    /\ dataCh0 = [k \in 1..NUM_POINTS |-> 0]
    /\ absoluteSampleIndexBuffer = [k \in 1..NUM_POINTS |-> 0]
    /\ sampleIndex = 0
    /\ totalSamples = 0
    /\ connected = FALSE
    /\ pqrstPoints = << >>
    /\ lastAcceptedSample = Null
    /\ rPeakTimestamps = << >>
    /\ contributions = << >>
    /\ ticks = 0
    /\ filters = ZeroTaps
    /\ isRecording = FALSE
    /\ recorded = << >>
    /\ stored = << >>
    /\ chain = ZeroTaps
    /\ chainCalls = 0
    /\ stages = << >>
    /\ wavesCall = NoWavesCall
    /\ InitAux

NextRPeak ==
    /\ \/ DetectRPeaksECG
       \/ DetectRPeaksECG_lib
    /\ UNCHANGED <<icVars, hrvVars, qrsVars, panelVars, chainVars, auxVars, stages>>

SpecRPeak == InitRPeak /\ [][NextRPeak]_vars

NextQRS ==
    /\ \/ \E data \in QrsInputs : DetectQRS(data)
       \/ ResetQRS
    /\ UNCHANGED <<icVars, hrvVars, rpVars, panelVars, chainVars, auxVars, stages>>

SpecQRS == Init /\ [][NextQRS]_vars

NextPanel ==
    /\ \/ Connect
       \/ /\ totalSamples < MaxPackets * 10
          /\ \E outputs \in PacketInputs(totalSamples) :
                 Notify(NEW_PACKET_LEN, outputs)
       \/ Notify(SINGLE_SAMPLE_LEN, <<2048>>)
       \/ /\ ticks < MaxTicks
          /\ UpdatePeaks
    /\ UNCHANGED <<rpVars, qrsVars, chainVars, auxVars>>

SpecPanel == Init /\ [][NextPanel]_vars

\* The panel while the interval callback does not run: a longer stream,
\* and recordings
NextStream ==
    /\ \/ Connect
       \/ /\ totalSamples < MaxStreamPackets * 10
          /\ \E raws \in PacketInputs(totalSamples) :
                 Notify(NEW_PACKET_LEN, raws)
       \/ StartRecording
    /\ UNCHANGED <<rpVars, qrsVars, chainVars, auxVars>>

SpecStream == Init /\ [][NextStream]_vars

NextWaves ==
    /\ \E data \in Signals : \E rPeaks \in CandidateLists(data) :
           \E currentIndex \in {0, 250} :
               DetectWaves(data, rPeaks, currentIndex)
    /\ UNCHANGED <<icVars, hrvVars, rpVars, qrsVars, panelVars, auxVars, chain,
                   chainCalls, stages>>

SpecWaves == Init /\ [][NextWaves]_vars

NextChain ==
    /\ \/ \E x \in ChainInputs : ChainProcess(x)
       \/ ChainReset
    /\ UNCHANGED <<icVars, hrvVars, rpVars, qrsVars, panelVars, auxVars, wavesCall>>

SpecChain == Init /\ [][NextChain]_vars

NextSessions ==
    /\ NextAnalyzer
    /\ UNCHANGED <<icVars, hrvVars, rpVars, qrsVars, panelVars, chainVars, stages,
                   loader, loaderCalls, bpmCall, steady, groupCall>>

SpecSessions == Init /\ [][NextSessions]_vars

NextTfLoader ==
    /\ NextLoader
    /\ UNCHANGED <<icVars, hrvVars, rpVars, qrsVars, panelVars, chainVars, stages,
                   analyzers, bpmCall, steady, groupCall>>

SpecLoader == Init /\ [][NextTfLoader]_vars

NextBPM ==
    /\ \E peaks \in BpmInputs : CalculateBPMFromPeaks(peaks)
    /\ UNCHANGED <<icVars, hrvVars, rpVars, qrsVars, panelVars, chainVars, stages,
                   analyzers, loader, loaderCalls, steady, groupCall>>

SpecBPM == Init /\ [][NextBPM]_vars

NextSteady ==
    /\ \/ \E input \in SteadyInputs : StartConstant(input[1], input[2])
       \/ ProcessConstant
    /\ UNCHANGED <<icVars, hrvVars, rpVars, qrsVars, panelVars, chainVars, stages,
                   analyzers, loader, loaderCalls, bpmCall, groupCall>>

\* The constant is fed for ever: a process call that is due is made
SpecSteady == Init /\ [][NextSteady]_vars /\ WF_vars(NextSteady)

NextGroups ==
    /\ \E beats \in BeatLists, offset \in GroupOffsets :
           GroupIntoComplexes(PointsOf(beats, offset))
    /\ UNCHANGED <<icVars, hrvVars, rpVars, qrsVars, panelVars, chainVars, stages,
                   analyzers, loader, loaderCalls, bpmCall, steady>>

SpecGroups == Init /\ [][NextGroups]_vars

----------------------------------------------------------------------------
(* Properties of the interval calculator *)

\* The claims' notion of a list of whole beats: two or more beats, each with
\* its five points (P, Q before R; S, T after R), R-peaks >= 600 ms apart.
WellFormedBeats(beats) ==
    /\ Len(beats) >= 2
    /\ \A i \in 1..Len(beats) : beats[i].mask = AllTypes
    /\ \A i \in 2..Len(beats) :
           (beats[i].r - beats[i - 1].r) * 9000 >= 600 * 9 * 360

PointSet(seq) == {seq[i] : i \in 1..Len(seq)}

LacksAType(complex) ==
    \E t \in AllTypes : \A i \in 1..Len(complex) : complex[i].type # t

\* The call was handed an empty list or one whose most recent complex lacks
\* one of the five types.
HoldCase(call) ==
    \E cs \in {groupIntoComplexes(PointsOf(call.beats, call.offset))} :
        \/ call.beats = << >>
        \/ cs = << >>
        \/ LacksAType(cs[Len(cs)])

\* C1: on a freshly constructed calculator, a list of two or more whole
\* beats with R-peaks >= 600 ms apart yields a freshly computed, non-null
\* Intervals whose rr is the distance in ms between the last two R-peaks and
\* whose bpm is 60000 / rr.
C1_FreshIntervalsFromWholeBeats ==
    (/\ icCall.op = "calculateIntervals"
     /\ IsNull(icCall.before)
     /\ WellFormedBeats(icCall.beats))
    => LET n  == Len(icCall.beats)
           rr == ((icCall.beats[n].r - icCall.beats[n - 1].r) * 9000) \div 360
       IN  /\ icCall.fresh
           /\ ~IsNull(icCall.ret)
           /\ icCall.ret[1].rr = rr
           /\ icCall.ret[1].bpm = (540000 * 1000) \div rr

\* C2: for a list of whole, non-overlapping beats with R-peaks >= 600 ms
\* apart, every complex of groupIntoComplexes holds exactly the five points
\* of one beat, so every complex (the most recent one included) is complete.
C2_ComplexHoldsItsOwnBeat ==
    (/\ icCall.op = "calculateIntervals"
     /\ WellFormedBeats(icCall.beats))
    => \A cs \in {groupIntoComplexes(PointsOf(icCall.beats, icCall.offset))} :
           /\ Len(cs) = Len(icCall.beats)
           /\ \A i \in 1..Len(cs) :
                 /\ PointSet(cs[i]) = PointSet(BeatPoints(icCall.beats[i],
                                                          icCall.offset))
                 /\ ~LacksAType(cs[i])

----------------------------------------------------------------------------
(* Properties of the HRV calculator *)

\* C7: without reset, the RR buffer holds exactly the last min(k, 300)
\* accepted intervals in order of acceptance (k = number accepted so far);
\* its length never exceeds 300 and the oldest entry is the one evicted.
C7_RRHistoryBound ==
    /\ Len(rrIntervals) <= 300
    /\ rrIntervals = LastN(accepted, Min(Len(accepted), 300))

\* More than 300 intervals were accepted, so the oldest ones were evicted
C7_Witness ==
    /\ Len(accepted) > 300
    /\ Len(rrIntervals) = 300
    /\ rrIntervals[1] # accepted[1]

\* What the buffer is after appending v to buf (oldest evicted when full)
AppendedTo(buf, v) ==
    IF Len(buf) + 1 > 300 THEN Tail(Append(buf, v)) ELSE Append(buf, v)

\* C8: addRRInterval(v) appends v if and only if 300 <= v <= 2000 ms (both
\* bounds accepted); for any other v the buffer is left unchanged.
C8_ClosedRangeAccepted ==
    (hrvCall.op = "addRRInterval")
    => IF hrvCall.interval >= 300 * 9 /\ hrvCall.interval <= 2000 * 9
       THEN rrIntervals = AppendedTo(hrvCall.before, hrvCall.interval)
       ELSE rrIntervals = hrvCall.before

----------------------------------------------------------------------------
(* Properties of detectRPeaksECG *)

\* The sample rate is 0, negative, NaN or infinite
BadRate(rate) == ~IsFinite(rate) \/ rate.v <= 0

\* C5: detectRPeaksECG returns an empty list, without throwing, whenever
\* the signal is empty or the sample rate is 0, negative, NaN or infinite,
\* whatever the samples are (in either version of the function).
C5_EmptyOnInvalidInput ==
    (/\ rpCall.version # "none"
     /\ (Len(rpCall.signal) = 0 \/ BadRate(rpCall.rate)))
    => /\ rpCall.result.kind = "return"
       /\ rpCall.result.peaks = << >>

\* The caller set adaptiveThreshold to false
SetToFalse(options) ==
    /\ ~IsNull(options)
    /\ "adaptiveThreshold" \in DOMAIN options[1]
    /\ options[1]["adaptiveThreshold"] = FALSE

\* C6: on a valid input, the first pass runs on the unscaled signal and its
\* R indices are returned when there is one; the second pass runs, once, on
\* the signal divided by max(max|x|, 1e-6), exactly when the first found
\* none and the caller did not set adaptiveThreshold to false.
C6_FallbackOnByDefault ==
    (/\ rpCall.version # "none"
     /\ Len(rpCall.signal) > 0
     /\ ~BadRate(rpCall.rate))
    => /\ rpCall.result.passes \in {1, 2}
       /\ rpCall.result.pass1 # << >> =>
              /\ rpCall.result.passes = 1
              /\ rpCall.result.peaks = rpCall.result.pass1
       /\ rpCall.result.passes = 2 <=>
              /\ rpCall.result.pass1 = << >>
              /\ ~SetToFalse(rpCall.options)
       /\ rpCall.result.passes = 2 =>
              rpCall.result.scaledUnit = Max(MaxAbs(rpCall.signal), 1)

----------------------------------------------------------------------------
(* Properties of the Pan-Tompkins detector *)

\* C4: whatever the buffer and the prior detector state, any two adjacent
\* indices of the list returned by detectQRS (after refinement,
\* deduplication and T-wave rejection) are at least minDistance apart.
C4_ReturnedPeaksRefractory ==
    qrsCall.op = "detectQRS"
    => \A k \in 1..(Len(qrsCall.ret) - 1) :
           qrsCall.ret[k + 1] - qrsCall.ret[k] >= minDistance

----------------------------------------------------------------------------
(* Properties of the panel *)

\* C9: over any sequence of ticks, each pair of consecutive accepted
\* R-peaks, identified by their absolute sample indices, contributes its RR
\* interval to the HRV RR history at most once.
C9_BeatPairContributesOnce ==
    \A i, j \in 1..Len(contributions) :
        contributions[i] = contributions[j] => i = j

\* C10: every value held in the rolling window is finite and within
\* [-1, 1] at all times.
C10_WindowFiniteAndClamped ==
    \A k \in 1..Len(dataCh0) : dataCh0[k] >= -Unit /\ dataCh0[k] <= Unit

\* The handler has stored the packet of large swings, whose filter outputs
\* are 0.187, 0.787, 1.626, 2.040, 1.492, 0.316, -0.922, -1.694, -1.708,
\* -1.462: those beyond the range are stored clamped
C10_Witness ==
    /\ totalSamples >= 10
    /\ dataCh0[1] = 187 /\ dataCh0[2] = 787
    /\ dataCh0[3] = Unit /\ dataCh0[4] = Unit /\ dataCh0[5] = Unit
    /\ dataCh0[6] = 316 /\ dataCh0[7] = -922
    /\ dataCh0[8] = -Unit /\ dataCh0[9] = -Unit /\ dataCh0[10] = -Unit

----------------------------------------------------------------------------
(* Properties of the rolling window and of the filters *)

\* C11: after any number n of ingested samples the data buffer and the
\* absolute-index buffer both have length 1000, the write position is
\* n mod 1000, and for each of the most recent min(n, 1000) samples k
\* (numbered 0, 1, 2, ... in arrival order) the slot k mod 1000 holds that
\* sample's filtered value and the absolute index k.
C11_RollingWindow ==
    /\ Len(dataCh0) = NUM_POINTS
    /\ Len(absoluteSampleIndexBuffer) = NUM_POINTS
    /\ sampleIndex = totalSamples % NUM_POINTS
    /\ Len(stored) = totalSamples
    /\ \A k \in Max(0, totalSamples - NUM_POINTS)..(totalSamples - 1) :
           /\ dataCh0[(k % NUM_POINTS) + 1] = stored[k + 1]
           /\ absoluteSampleIndexBuffer[(k % NUM_POINTS) + 1] = k

\* The window has wrapped: 1020 samples, of which the last twenty have
\* replaced the first twenty; slot 0 held 0.187 and now holds sample 1000
C11_Witness ==
    /\ totalSamples = NUM_POINTS + 20
    /\ sampleIndex = 20
    /\ absoluteSampleIndexBuffer[1] = NUM_POINTS
    /\ absoluteSampleIndexBuffer[20] = NUM_POINTS + 19
    /\ absoluteSampleIndexBuffer[21] = 20
    /\ stored[1] = 187
    /\ dataCh0[1] = stored[NUM_POINTS + 1]
    /\ dataCh0[1] # stored[1]

\* C12: every filter chain applies its stages in the order highpass, notch,
\* lowpass, each exactly once per incoming sample, in ECGFilterChain.process
\* as in the live handler.
C12_StagesInOrder ==
    stages # << >> => stages = <<"highpass", "notch", "lowpass">>

\* A session has started and none of its samples is processed yet
SessionStart ==
    \/ connected /\ totalSamples = 0
    \/ isRecording /\ recorded = << >>

\* C13: at the start of every new session (connect or startRecording) the
\* highpass, notch and lowpass taps are zero before the first sample of the
\* session is processed.
C13_TapsZeroAtSessionStart ==
    SessionStart => filters = ZeroTaps

----------------------------------------------------------------------------
(* Properties of the wave detector *)

\* C14: every point returned by detectWaves(data, rPeaks, offset), for any
\* data and any candidate indices inside the buffer, has
\* 0 <= index < data.length, amplitude equal to data[index] and
\* absolutePosition equal to offset + index.
C14_PointsInsideBuffer ==
    \A k \in 1..Len(wavesCall.ret) :
        LET pt == wavesCall.ret[k]
        IN  /\ pt.index >= 0
            /\ pt.index < Len(wavesCall.data)
            /\ pt.amplitude = wavesCall.data[pt.index + 1]
            /\ pt.absolutePosition = wavesCall.currentIndex + pt.index

----------------------------------------------------------------------------
(* Properties of the state estimate and of the triangular index *)

\* The last operation was getPhysiologicalState() or getMentalState()
StateCall == hrvCall.op \in {"getPhysiologicalState", "getMentalState"}

\* C15: getPhysiologicalState and getMentalState return
\* {state: "Analyzing", confidence: 0} if and only if the RR buffer holds
\* fewer than 30 intervals; with 30 or more the state is never "Analyzing".
C15_AnalyzingIffTooFew ==
    StateCall =>
        /\ (hrvCall.ret = [state |-> "Analyzing", confidence |-> 0])
               <=> (Len(rrIntervals) < 30)
        /\ Len(rrIntervals) >= 30 => hrvCall.ret.state # "Analyzing"

\* Exactly thirty intervals: the first history that is analysed
C15_Witness ==
    /\ hrvCall.op = "getMentalState"
    /\ Len(rrIntervals) = 30
    /\ hrvCall.ret.state = "Neutral"

\* C16: for every reachable RR buffer the state returned by
\* getPhysiologicalState is one of High Stress, Relaxed, Focused, Fatigue,
\* Neutral, Analyzing, and the confidence is within [0, 0.95] whichever rule
\* fires.
C16_StateAndConfidenceRange ==
    StateCall =>
        /\ hrvCall.ret.state \in {"High Stress", "Relaxed", "Focused", "Fatigue",
                                  "Neutral", "Analyzing"}
        /\ hrvCall.ret.confidence >= 0
        /\ hrvCall.ret.confidence <= 950

\* The stress rule fired on 0.7 + (90 - 5) / 100 = 1.55, returned as 0.95
C16_Witness ==
    /\ hrvCall.op = "getPhysiologicalState"
    /\ hrvCall.ret = [state |-> "High Stress", confidence |-> 950]
    /\ calculateRMSSD(rrIntervals) = 5000

\* The count of the tallest bin when every interval of buf is counted in the
\* bin of its index
TallestBin(buf) ==
    LET rrs == {buf[i] : i \in 1..Len(buf)}
        minRR == CHOOSE v \in rrs : \A o \in rrs : v <= o
        count == [b \in {BinIndex(v, minRR) : v \in rrs} |->
                     Cardinality({i \in 1..Len(buf) : BinIndex(buf[i], minRR) = b})]
    IN  CHOOSE c \in {count[b] : b \in DOMAIN count} :
            \A b \in DOMAIN count : count[b] <= c

\* C20: for at least 20 intervals calculateTriangularIndex returns the
\* buffer length divided by the count of the tallest bin of a histogram with
\* 7.8125 ms bins in which every interval is counted in exactly one bin
\* (the maximum interval and the all-equal case included); for fewer than 20
\* it returns 0.
C20_TriangularIndex ==
    (hrvCall.op = "calculateTriangularIndex") =>
        (hrvCall.ret = (IF Len(rrIntervals) < 20 THEN 0
                        ELSE (Len(rrIntervals) * 1000) \div TallestBin(rrIntervals)))

----------------------------------------------------------------------------
(* Properties of the validation and of the classification *)

\* A duration (ninths of a ms) that is negative or outside [lo, hi] ms
Malformed(v, lo, hi) == v < lo * 9 \/ v > hi * 9

\* C17: validateIntervals returns false for every Intervals record in which
\* rr, pr, qrs, qt or qtc is negative or outside its plausible range
\* ([300, 3000], [80, 400], [40, 200], [200, 600], [300, 700] ms).
C17_MalformedRejected ==
    (validCall # NoValidCall) =>
        LET i == validCall.intervals[1]
        IN  (\/ Malformed(i.rr, 300, 3000)
             \/ Malformed(i.pr, 80, 400)
             \/ Malformed(i.qrs, 40, 200)
             \/ Malformed(i.qt, 200, 600)
             \/ Malformed(i.qtc, 300, 700))
            => (validCall.ret = Some(FALSE))

\* The last operation computed a new Intervals
FreshIntervals == icCall.op = "calculateIntervals" /\ icCall.fresh

\* C18: in every freshly computed Intervals status.bpm is "unknown" iff bpm
\* is 0, "bradycardia" iff 0 < bpm < 60, "tachycardia" iff bpm > 100 and
\* "normal" otherwise; status.rr is "unknown" iff rr is 0, "short" iff
\* 0 < rr < 600, "long" iff rr > 1000 and "normal" otherwise; an RR giving
\* 45 BPM is classified bradycardia.
C18_StatusClassification ==
    FreshIntervals =>
        LET i == icCall.ret[1]
        IN  /\ (i.status.bpm = "unknown") <=> (i.bpm = 0)
            /\ (i.status.bpm = "bradycardia") <=> (i.bpm > 0 /\ i.bpm < 60000)
            /\ (i.status.bpm = "tachycardia") <=> (i.bpm > 100000)
            /\ (i.status.bpm = "normal") <=> (i.bpm >= 60000 /\ i.bpm <= 100000)
            /\ (i.status.rr = "unknown") <=> (i.rr = 0)
            /\ (i.status.rr = "short") <=> (i.rr > 0 /\ i.rr < 600 * 9)
            /\ (i.status.rr = "long") <=> (i.rr > 1000 * 9)
            /\ (i.status.rr = "normal") <=> (i.rr >= 600 * 9 /\ i.rr <= 1000 * 9)
            /\ (i.bpm = 45000) => (i.status.bpm = "bradycardia")

\* R peaks 480 samples apart: 1333.3 ms, 45 BPM
C18_Witness ==
    /\ FreshIntervals
    /\ icCall.ret[1].rr = 12000
    /\ icCall.ret[1].bpm = 45000
    /\ icCall.ret[1].status.bpm = "bradycardia"
    /\ icCall.ret[1].status.rr = "long"

\* C19: in every freshly computed Intervals qtc is 0, with status
\* "unknown", unless qt > 0 and rr >= 100 ms; when rr is exactly 1000 ms and
\* qt > 0, qtc equals qt.
C19_QTcRule ==
    FreshIntervals =>
        LET i == icCall.ret[1]
        IN  /\ (~(i.qt > 0 /\ i.rr >= 100 * 9))
                   => (i.qtc = 0 /\ i.status.qtc = "unknown")
            /\ (i.rr = 1000 * 9 /\ i.qt > 0) => (i.qtc = i.qt)

\* R peaks 360 samples apart and a QT of 30 samples
C19_Witness ==
    /\ FreshIntervals
    /\ icCall.ret[1].rr = 1000 * 9
    /\ icCall.ret[1].qt = 750
    /\ icCall.ret[1].qtc = 750

----------------------------------------------------------------------------
(* Properties of the session analyzer *)

\* The analyzer a was reset and has analysed one session since
FirstAfterReset(a) ==
    analyzers[a].resets > 0 /\ analyzers[a].sinceReset = 1

\* C21: two analyzers that analysed different earlier sessions and were
\* then both reset produce the same intervals and the same HRV results for
\* the same next session.
C21_ResultDependsOnSessionOnly ==
    \A a, b \in Analyzers :
        (/\ FirstAfterReset(a)
         /\ FirstAfterReset(b)
         /\ analyzers[a].session = analyzers[b].session)
        => (analyzers[a].result = analyzers[b].result)

----------------------------------------------------------------------------
(* Properties of the loader *)

\* The calls of fn that have returned a value
ResolvedCalls(fn) ==
    {c \in 1..Len(loaderCalls) :
        loaderCalls[c].fn = fn /\ loaderCalls[c].ret.kind = "value"}

\* C22: while clearCache() has not been called, the TensorFlow import is
\* started at most once, the model load sequence is started at most once,
\* every loadTensorFlow call that resolves returns the one module and
\* every loadECGModel call that resolves returns the one model instance.
C22_LoadOnce ==
    (loader.clears = 0) =>
        (/\ loader.imports <= 1
         /\ loader.loads <= 1
         /\ \A c \in ResolvedCalls("loadTensorFlow") :
                loaderCalls[c].ret.v = Some("tf")
         /\ \A c \in ResolvedCalls("loadECGModel") :
                /\ ~IsNull(loaderCalls[c].ret.v)
                /\ \A d \in ResolvedCalls("loadECGModel") :
                       loaderCalls[d].ret.v = loaderCalls[c].ret.v)

\* Three concurrent calls, all begun before anything settled, have returned
\* the module and the model of the single import and the single load
C22_Witness ==
    /\ loader.clears = 0
    /\ Len(loaderCalls) = 3
    /\ \A c \in 1..3 : loaderCalls[c].seen <= 2 /\ ~IsNull(loaderCalls[c].wait)
    /\ loaderCalls[1].fn = "loadECGModel"
    /\ loaderCalls[2].fn = "loadTensorFlow"
    /\ loaderCalls[3].fn = "loadECGModel"
    /\ loaderCalls[1].ret = Returned(Some(2))
    /\ loaderCalls[2].ret = Returned(Some("tf"))
    /\ loaderCalls[3].ret = Returned(Some(2))
    /\ loader.imports = 1
    /\ loader.loads = 1

\* C23: a loadECGModel() call made after a clearCache() that followed a
\* successful model load starts a fresh load and, when it resolves,
\* resolves to a model that was loaded after the call began.
C23_FreshLoadAfterClear ==
    \A c \in ResolvedCalls("loadECGModel") :
        loaderCalls[c].afterClear =>
            (/\ ~IsNull(loaderCalls[c].ret.v)
             /\ loaderCalls[c].ret.v[1] > loaderCalls[c].seen)

----------------------------------------------------------------------------
(* Properties of the BPM calculator *)

\* C24: calculateBPMFromPeaks with the default limits returns a rate only
\* when it lies in [40, 180] beats per minute, and null otherwise.
C24_BpmWithinDocumentedLimits ==
    (~IsNull(bpmCall.peaks) /\ ~IsNull(bpmCall.ret)) =>
        (bpmCall.ret[1] >= 40000 /\ bpmCall.ret[1] <= 180000)

----------------------------------------------------------------------------
(* Properties of the filters *)

\* Millionths by which an output may differ from its limit
SteadyTolerance == 1

\* The limit of the output: 0 for the highpass, the constant for the lowpass
SteadyTarget == IF steady.stage = "highpass" THEN 0 ELSE steady.c

Settled ==
    /\ steady.calls > 0
    /\ Abs(steady.out - SteadyTarget) <= SteadyTolerance

\* The taps have stopped changing
TapsAtRest ==
    /\ steady.calls > 0
    /\ process(steady.stage, steady.taps, steady.c).taps = steady.taps

\* C25: fed a constant c for ever, the output of HighpassFilter.process
\* converges to 0 and that of LowpassFilter.process to c, and in the state
\* where the taps have stopped changing process yields 0 for the highpass
\* and c for the lowpass.
C25_SteadyState ==
    /\ <>[]Settled
    /\ [](TapsAtRest =>
            (Abs(process(steady.stage, steady.taps, steady.c).out - SteadyTarget)
                <= SteadyTolerance))

\* The highpass fed 0.005 has come to rest with output 0
C25_Witness ==
    /\ steady.stage = "highpass"
    /\ steady.c = 5000
    /\ TapsAtRest
    /\ steady.taps[1] > 13000 * steady.c
    /\ steady.out = 0

----------------------------------------------------------------------------
(* Properties of the detector across the refractory period and across calls *)

\* The first detectQRS call on a detector has ended with a last accepted
\* peak that is not among the candidates it pushed: the peak was replaced
\* by a taller maximum inside the refractory distance
UpgradedInFirstCall ==
    /\ qrsCalls = 1
    /\ qrsCall.op = "detectQRS"
    /\ Len(peakLoc) > 0
    /\ \A k \in 1..Len(qrsCall.rPeaks) : qrsCall.rPeaks[k] # peakLoc[Len(peakLoc)]

\* C26: when a maximum inside the refractory distance replaces the last
\* accepted peak, the list returned by that call reports the location of
\* the taller maximum after refinement, which lies within searchWindow of
\* the maximum.
C26_UpgradeReported ==
    UpgradedInFirstCall =>
        (\E k \in 1..Len(qrsCall.ret) :
            Abs(qrsCall.ret[k] - peakLoc[Len(peakLoc)]) <= searchWindow)

\* C27: without reset(), a detectQRS call that starts with an accepted peak
\* at lastLoc adds a candidate only at an index i with
\* i - lastLoc >= minDistance, and keeps the thresholds of the earlier call
\* instead of setting them from the top-5th-percentile value.
C27_StateCarriesOver ==
    [][(qrsCalls' = qrsCalls + 1 /\ Len(peakLoc) > 0) =>
         (/\ \A k \in 1..Len(qrsCall'.rPeaks) :
                qrsCall'.rPeaks[k] - peakLoc[Len(peakLoc)] >= minDistance
          /\ (peakAmp' = peakAmp /\ noiseAmp' = noiseAmp) =>
                (/\ signalThreshold' = signalThreshold
                 /\ noiseThreshold' = noiseThreshold))]_vars

----------------------------------------------------------------------------
(* Properties of the guided detection *)

\* The rule of the morphology filter as documented: amplitude above 0.5, or
\* a negative sample among the w samples before r and a negative sample
\* among the w samples after r, with w = floor(0.06 * sampleRate)
DocumentedQRS(data, r) ==
    LET w == (6 * sampleRate) \div 100
    IN  \/ data[r + 1] * 2 > Unit
        \/ /\ \E i \in Max(0, r - w)..(r - 1) : data[i + 1] < 0
           /\ \E i \in (r + 1)..Min(Len(data) - 1, r + w) : data[i + 1] < 0

\* The returned list holds an R point at index r
HasRAt(r) ==
    \E j \in 1..Len(wavesCall.ret) :
        wavesCall.ret[j].type = "R" /\ wavesCall.ret[j].index = r

\* C28: a candidate R index r away from the edges is kept by detectWaves
\* if and only if data[r] > 0.5 or there is a negative sample in
\* r-w .. r-1 and a negative sample in r+1 .. r+w.
C28_MorphologyFilter ==
    \A k \in 1..Len(wavesCall.rPeaks) :
        LET r == wavesCall.rPeaks[k]
        IN  (r >= 9 /\ r < Len(wavesCall.data) - 9) =>
                (HasRAt(r) <=> DocumentedQRS(wavesCall.data, r))

\* The validated candidates of the call that are away from the edges
InnerPeaks ==
    SelectSeq(wavesCall.rPeaks,
              LAMBDA r : /\ isValidQRS(wavesCall.data, Unit, r, sampleRate)
                         /\ r >= 9
                         /\ r < Len(wavesCall.data) - 9)

\* C29: at 360 Hz every validated R-peak r with 9 <= r < data.length - 9
\* yields exactly one point of each type, with
\* P.index <= Q.index < r < S.index < T.index, r - Q.index <= 18,
\* Q.index - P.index <= 27 and S.index - r <= 18; a validated R-peak nearer
\* to an edge yields no point.
C29_FivePointsPerBeat ==
    /\ Len(wavesCall.ret) = 5 * Len(InnerPeaks)
    /\ \A k \in 1..Len(InnerPeaks) :
          LET beat == SubSeq(wavesCall.ret, 5 * k - 4, 5 * k)
              At(t) == (CHOOSE j \in 1..5 : beat[j].type = t)
              r == InnerPeaks[k]
          IN  /\ \A t \in {"P", "Q", "R", "S", "T"} :
                    Cardinality({j \in 1..5 : beat[j].type = t}) = 1
              /\ beat[At("R")].index = r
              /\ beat[At("P")].index <= beat[At("Q")].index
              /\ beat[At("Q")].index < r
              /\ r < beat[At("S")].index
              /\ beat[At("S")].index < beat[At("T")].index
              /\ r - beat[At("Q")].index <= 18
              /\ beat[At("Q")].index - beat[At("P")].index <= 27
              /\ beat[At("S")].index - r <= 18

\* Two validated peaks away from the edges have yielded ten points
C29_Witness ==
    /\ Len(wavesCall.rPeaks) = 2
    /\ Len(InnerPeaks) = 2
    /\ Len(wavesCall.ret) = 10
    /\ wavesCall.ret[1].index = 40

----------------------------------------------------------------------------
(* Properties of the grouping *)

\* The R points of a sequence of points
RPointsOf(points) == SelectSeq(points, LAMBDA pt : pt.type = "R")

\* The R points of all complexes, in the order of the complexes
GroupedR ==
    LET RECURSIVE Flat(_)
        Flat(k) == IF k > Len(groupCall.ret) THEN << >>
                   ELSE RPointsOf(groupCall.ret[k]) \o Flat(k + 1)
    IN  Flat(1)

\* Every complex holds at most one R point, the R points of the complexes
\* are floor(0.6 * sampleRate) or more apart, and every R point of the
\* input that is in no complex is nearer than that to one that is
OneRPerComplex ==
    /\ \A k \in 1..Len(groupCall.ret) : Len(RPointsOf(groupCall.ret[k])) <= 1
    /\ \A i, j \in 1..Len(GroupedR) :
          (i < j) =>
            (Abs(GroupedR[j].absolutePosition - GroupedR[i].absolutePosition)
               >= (6 * sampleRate) \div 10)
    /\ \A i \in 1..Len(RPointsOf(groupCall.points[1])) :
          LET pt == RPointsOf(groupCall.points[1])[i]
          IN  \/ \E j \in 1..Len(GroupedR) : GroupedR[j] = pt
              \/ \E j \in 1..Len(GroupedR) :
                    Abs(GroupedR[j].absolutePosition - pt.absolutePosition)
                      < (6 * sampleRate) \div 10

====
